---- MODULE Spec2Model ----
(***************************************************************************)
(* Model of the map tiling pipeline of pathfinder.mapmaker:                *)
(*   split_image               (page-layout planner and tile cropper)      *)
(*   make_pdf                  (tiled document assembler)                  *)
(*   process_image_with_border (exact-fit planner)                         *)
(*   make_single_page_pdf      (exact-fit document assembler)              *)
(*   extract_images_from_pdf   (embedded-image extractor)                  *)
(*                                                                         *)
(* Number representation.  The code computes in floating point; the model  *)
(* computes the same expressions exactly, as rationals [n |-> .., d |-> ..]*)
(* with d > 0.  Lengths supplied by the caller (paper, borders, overlaps)  *)
(* are whole millimetres and grid sizes are whole squares, so              *)
(*   pixels_per_mm = 10*px / (254*squares)                                 *)
(* and every length in mm is a rational over pixels_per_mm.n, every pixel  *)
(* coordinate a rational over pixels_per_mm.d.                             *)
(***************************************************************************)
EXTENDS Integers, Sequences, FiniteSets, TLC

VARIABLES
    \* arguments of split_image / process_image_with_border (read-only)
    width_pixels, height_pixels,      \* im.size
    squares_wide, squares_high,
    border_north, border_east, border_south, border_west,
    overlap_east, overlap_south,
    paper,
    \* control
    pc,            \* position of the run
    ran,           \* modes already run on this image
    \* split_image
    split,         \* locals and return value of split_image
    images,        \* split['images'], a dict in insertion order
    page_x, page_y,\* position of the dict comprehension
    \* make_pdf
    pdf,           \* the FPDF document built by make_pdf
    item,          \* index of the next item of images['images'].items()
    \* exact-fit mode
    image_spec,    \* return value of process_image_with_border
    single_pdf,    \* the FPDF document built by make_single_page_pdf
    \* extract_images_from_pdf
    in_pdf,        \* the pages of the document: the ids of each page's XObjects
    page, to_page, \* arguments; None when omitted
    min_width, min_height,
    xpc,           \* position of the generator
    page_number,   \* the loop variable of the page loop
    frames,        \* the running images_in_page generators, outermost first
    yielded,       \* the images the generator has yielded so far
    raised,        \* the exception that ended the generator, if any
    \* pfs_extract
    options,       \* the parsed command line and the files it names
    \* pfs_build_maps
    settings,      \* mode and paper size after command line and presets, the directories
    entries,       \* what scandir(input_dir) gives, in its order
    files,         \* the names of the files in output_dir
    paper_size,    \* the Paper found for the specified paper size, or None
    bpc,           \* position of main
    entry,         \* index of the entry the loop of main is at
    log,           \* the records logged at INFO level and above
    ended,         \* how main ended: return, exit(code) or an exception
    \* run_waifu2x
    waifu_call,    \* its arguments, the module's paths and what the tool does
    waifu_result   \* what the call gave

args == <<width_pixels, height_pixels, squares_wide, squares_high,
          border_north, border_east, border_south, border_west,
          overlap_east, overlap_south, paper>>

vars == <<width_pixels, height_pixels, squares_wide, squares_high,
          border_north, border_east, border_south, border_west,
          overlap_east, overlap_south, paper,
          pc, ran, split, images, page_x, page_y, pdf, item,
          image_spec, single_pdf,
          in_pdf, page, to_page, min_width, min_height,
          xpc, page_number, frames, yielded, raised, options,
          settings, entries, files, paper_size, bpc, entry, log, ended,
          waifu_call, waifu_result>>

\* state of the tiling and exact-fit modes / of the extractor
mapvars == <<width_pixels, height_pixels, squares_wide, squares_high,
             border_north, border_east, border_south, border_west,
             overlap_east, overlap_south, paper,
             pc, ran, split, images, page_x, page_y, pdf, item,
             image_spec, single_pdf>>
xargs == <<in_pdf, page, to_page, min_width, min_height, options>>
xvars == <<in_pdf, page, to_page, min_width, min_height, options,
           xpc, page_number, frames, yielded, raised>>
\* state of pfs_build_maps and of a call of run_waifu2x
bvars == <<settings, entries, files, paper_size, bpc, entry, log, ended,
           waifu_call, waifu_result>>

----------------------------------------------------------------------------
(* Bounds of the model *)

\* grid sizes tried: MinSquares..MaxSquares squares along each axis (see Squares)
MinSquares == 7
MaxSquares == 9

\* documents of up to MaxPages pages
MaxPages == 2

\* the interpreter's limit on nested calls, counted in running images_in_page
\* generators
RecursionLimit == 3

\* input directories of up to MaxEntries entries
MaxEntries == 2

----------------------------------------------------------------------------
(* Program constants *)

\* 25.4 mm per grid square, in tenths of a millimetre
MM10_PER_SQUARE == 254

\* class Paper
A4_width == 210
A4_height == 297
A3_width == 297
A3_height == 420
A2_width == 420
A2_height == 594
A1_width == 594
A1_height == 841
A0_width == 841
A0_height == 1189

Paper ==
    [A4 |-> [width |-> A4_width, height |-> A4_height, name |-> "A4"],
     A3 |-> [width |-> A3_width, height |-> A3_height, name |-> "A3"],
     A2 |-> [width |-> A2_width, height |-> A2_height, name |-> "A2"],
     A1 |-> [width |-> A1_width, height |-> A1_height, name |-> "A1"],
     A0 |-> [width |-> A0_width, height |-> A0_height, name |-> "A0"]]

\* Paper.dimensions
dimensions(p) == <<p.width, p.height>>

----------------------------------------------------------------------------
(* Exact arithmetic *)

Rat(n, d) == [n |-> n, d |-> d]

\* a <= b, a < b, a = b for rationals with positive denominators
RatLe(a, b) == a.n * b.d <= b.n * a.d
RatLt(a, b) == a.n * b.d < b.n * a.d
RatEq(a, b) == a.n * b.d = b.n * a.d

\* math.ceil(n / d), d > 0
Ceil(n, d) == -((-n) \div d)

\* round(n / d) of Python 3: to nearest, ties to even; d > 0
Round(n, d) ==
    LET q == n \div d
        r == n % d
    IN  IF 2 * r < d THEN q
        ELSE IF 2 * r > d THEN q + 1
        ELSE IF q % 2 = 0 THEN q ELSE q + 1

\* min(a, b) of Python: the first argument unless b is smaller
Min(a, b) == IF b < a THEN b ELSE a

----------------------------------------------------------------------------
(* split_image *)

\* the scale taken from the larger of the two ratios
split_pixels_per_mm_max(wp, hp, sw, sh) ==
    LET by_width  == Rat(10 * wp, MM10_PER_SQUARE * sw)
        by_height == Rat(10 * hp, MM10_PER_SQUARE * sh)
    IN  IF RatLt(by_width, by_height) THEN by_height ELSE by_width

\* the scale taken from the height alone
split_pixels_per_mm_by_height(wp, hp, sw, sh) ==
    Rat(10 * hp, MM10_PER_SQUARE * sh)

\* min(width_pixels / (squares_wide * 25.4), height_pixels / (squares_high * 25.4))
\* Python's min returns its first argument unless the second is smaller.
split_pixels_per_mm(wp, hp, sw, sh) ==
    LET by_width  == Rat(10 * wp, MM10_PER_SQUARE * sw)
        by_height == Rat(10 * hp, MM10_PER_SQUARE * sh)
    IN  IF RatLt(by_height, by_width) THEN by_height ELSE by_width

\* pixels / pixels_per_mm, in mm
mm_of_pixels(px, ppm) == Rat(px * ppm.d, ppm.n)

\* pages with the overlap left out of the divisor
pages_without_overlap(size, printable_size, overlap) ==
    IF Ceil(size.n, size.d * printable_size) = 1
    THEN 1
    ELSE Ceil(size.n, size.d * printable_size)

\* pages rounding to the nearest count instead of up
pages_rounded(size, printable_size, overlap) ==
    IF Ceil(size.n, size.d * printable_size) = 1
    THEN 1
    ELSE Round(size.n, size.d * (printable_size + overlap))

\* get_page_size.pages; size is a rational number of mm
pages(size, printable_size, overlap) ==
    IF Ceil(size.n, size.d * printable_size) = 1
    THEN 1
    ELSE Ceil(size.n, size.d * (printable_size + overlap))

\* zero_if_one that never zeroes
zero_never(test, value) == value

\* get_page_size.zero_if_one
zero_if_one(test, value) == IF test = 1 THEN 0 ELSE value

\* the test of get_page_size that selects Landscape, with ties going to Landscape
use_landscape_on_tie(total_p, total_l) == total_p >= total_l

\* the test of get_page_size that selects Landscape
use_landscape(total_p, total_l) == total_p > total_l

\* get_page_size: the two candidate orientations and the one selected
get_page_size(width_mm, height_mm, pap, bn, be, bs, bw, oe, os) ==
    LET printable_width  == pap.width - (be + bw)
        printable_height == pap.height - (bn + bs)
        pages_horizontal_p == pages(width_mm, printable_width, oe)
        pages_vertical_p   == pages(height_mm, printable_height, os)
        pages_horizontal_l == pages(width_mm, printable_height, os)
        pages_vertical_l   == pages(height_mm, printable_width, oe)
        candidates == [printable_width |-> printable_width,
                       printable_height |-> printable_height,
                       pages_horizontal_p |-> pages_horizontal_p,
                       pages_vertical_p |-> pages_vertical_p,
                       pages_horizontal_l |-> pages_horizontal_l,
                       pages_vertical_l |-> pages_vertical_l]
    IN  IF use_landscape(pages_horizontal_p * pages_vertical_p,
                         pages_horizontal_l * pages_vertical_l)
        THEN [orientation |-> "L",
              pages_horizontal |-> pages_horizontal_l,
              pages_vertical |-> pages_vertical_l,
              page_width |-> printable_height - zero_if_one(pages_horizontal_l, os),
              page_height |-> printable_width - zero_if_one(pages_vertical_l, oe),
              candidates |-> candidates]
        ELSE [orientation |-> "P",
              pages_horizontal |-> pages_horizontal_p,
              pages_vertical |-> pages_vertical_p,
              page_width |-> printable_width - zero_if_one(pages_horizontal_p, oe),
              page_height |-> printable_height - zero_if_one(pages_vertical_p, os),
              candidates |-> candidates]

\* the overlaps in pixels and the resolved border list [north, east, south, west]
\* of the selected orientation; pixel quantities are numerators over ppm.d
resolve_borders(orientation, ppm, bn, be, bs, bw, oe, os) ==
    IF orientation = "P"
    THEN [overlap_east_pixels |-> ppm.n * oe,
          overlap_south_pixels |-> ppm.n * os,
          borders |-> <<bn, be + oe, bs + os, bw>>]
    ELSE [overlap_east_pixels |-> ppm.n * os,
          overlap_south_pixels |-> ppm.n * oe,
          borders |-> <<be, bs + oe, bw + os, bn>>]

\* crop_for without the clamp to the image edge
crop_box_unclamped(px, py, s, wp, hp) ==
    <<px * s.pixel_width_page,
      py * s.pixel_height_page,
      (px + 1) * s.pixel_width_page + s.overlap_east_pixels,
      (py + 1) * s.pixel_height_page + s.overlap_south_pixels>>

\* the box handed to im.crop by crop_for, as numerators over ppm.d:
\* <<left, upper, right, lower>>
crop_box(px, py, s, wp, hp) ==
    LET d == s.pixels_per_mm.d
        right == (px + 1) * s.pixel_width_page + s.overlap_east_pixels
        lower == (py + 1) * s.pixel_height_page + s.overlap_south_pixels
    IN  <<px * s.pixel_width_page,
          py * s.pixel_height_page,
          Min(wp * d, right),
          Min(hp * d, lower)>>

\* Image.crop rounds each coordinate of the box to the nearest integer and
\* returns the image of that pixel rectangle
crop(box, d) ==
    LET x0 == Round(box[1], d)
        y0 == Round(box[2], d)
        x1 == Round(box[3], d)
        y1 == Round(box[4], d)
    IN  [rect |-> <<x0, y0, x1, y1>>, size |-> <<x1 - x0, y1 - y0>>]

\* crop_for
crop_for(px, py, s, wp, hp) ==
    LET box == crop_box(px, py, s, wp, hp)
        im  == crop(box, s.pixels_per_mm.d)
    IN  [box |-> box, rect |-> im.rect, size |-> im.size]

\* str(n) for n >= 0, as a sequence of characters
RECURSIVE str(_)
str(n) ==
    LET digit == <<"0", "1", "2", "3", "4", "5", "6", "7", "8", "9">>
    IN  IF n < 10 THEN <<digit[n + 1]>> ELSE str(n \div 10) \o <<digit[(n % 10) + 1]>>

\* the key formatted row first
format_key_y_first(x, y) == str(y) \o <<"_">> \o str(x)

\* '{}_{}'.format(x, y)
format_key(x, y) == str(x) \o <<"_">> \o str(y)

\* d[key] = value on a dict kept in insertion order
dict_set(d, key, value) ==
    IF \E i \in 1..Len(d) : d[i].key = key
    THEN [i \in 1..Len(d) |-> IF d[i].key = key THEN [key |-> key, image |-> value] ELSE d[i]]
    ELSE Append(d, [key |-> key, image |-> value])

----------------------------------------------------------------------------
(* make_pdf *)

\* tick(..., size=5, gap=1, ...)
TICK_SIZE == 5
TICK_GAP == 1

\* page size of an FPDF document: the format, with its sides exchanged for 'L'
fpdf_page_size(orientation, format) ==
    IF orientation = "P" THEN <<format[1], format[2]>> ELSE <<format[2], format[1]>>

\* page_width, page_height as make_pdf derives them for its tick marks
make_pdf_page_size(orientation, dims) ==
    IF orientation = "P" THEN <<dims[1], dims[2]>> ELSE <<dims[2], dims[1]>>

\* int(s) for a non-empty sequence of decimal digits
RECURSIVE int(_)
int(s) ==
    LET value(c) == CASE c = "0" -> 0 [] c = "1" -> 1 [] c = "2" -> 2 [] c = "3" -> 3
                      [] c = "4" -> 4 [] c = "5" -> 5 [] c = "6" -> 6 [] c = "7" -> 7
                      [] c = "8" -> 8 [] c = "9" -> 9
    IN  IF Len(s) = 1 THEN value(s[1])
        ELSE 10 * int(SubSeq(s, 1, Len(s) - 1)) + value(s[Len(s)])

IsDigit(c) == c \in {"0", "1", "2", "3", "4", "5", "6", "7", "8", "9"}

\* the two groups of the match taken in the wrong order
parse_coords_swapped(coords) ==
    LET us   == CHOOSE i \in 1..Len(coords) :
                    coords[i] = "_" /\ \A j \in 1..(i - 1) : IsDigit(coords[j])
        last == CHOOSE k \in (us + 1)..Len(coords) :
                    /\ \A j \in (us + 1)..k : IsDigit(coords[j])
                    /\ (k = Len(coords) \/ ~IsDigit(coords[k + 1]))
    IN  <<int(SubSeq(coords, us + 1, last)), int(SubSeq(coords, 1, us - 1))>>

\* re.match(r'(\d+)_(\d+)', coords) followed by int() of the two groups;
\* coords begins with digits, an underscore and digits
parse_coords(coords) ==
    LET us   == CHOOSE i \in 1..Len(coords) :
                    coords[i] = "_" /\ \A j \in 1..(i - 1) : IsDigit(coords[j])
        last == CHOOSE k \in (us + 1)..Len(coords) :
                    /\ \A j \in (us + 1)..k : IsDigit(coords[j])
                    /\ (k = Len(coords) \/ ~IsDigit(coords[k + 1]))
    IN  <<int(SubSeq(coords, 1, us - 1)), int(SubSeq(coords, us + 1, last))>>

\* tick(x, y, n, e, s, w, dash): the lines it draws, in drawing order.  x and y
\* and the page size are numerators over a common denominator den (mm * den).
tick(x, y, den, pw, ph, n, e, s, w, dash) ==
    LET size == TICK_SIZE * den
        gap  == TICK_GAP * den
        line(x1, y1, x2, y2) == [x1 |-> x1, y1 |-> y1, x2 |-> x2, y2 |-> y2, dash |-> dash]
    IN  (IF w THEN (IF x <= size THEN <<line(x - gap, y, 0, y)>>
                    ELSE <<line(x - gap, y, x - size, y)>>) ELSE <<>>)
     \o (IF e THEN (IF pw - x <= size THEN <<line(x + gap, y, pw, y)>>
                    ELSE <<line(x + gap, y, x + size, y)>>) ELSE <<>>)
     \o (IF n THEN (IF y <= size THEN <<line(x, y - gap, x, 0)>>
                    ELSE <<line(x, y - gap, x, y - size)>>) ELSE <<>>)
     \o (IF s THEN (IF ph - y <= size THEN <<line(x, y + gap, x, ph)>>
                    ELSE <<line(x, y + gap, x, y + size)>>) ELSE <<>>)

\* the last-page test comparing with the count instead of the last index
is_last_off_by_one(index, count) == index = count

\* last_vertical, last_horizontal: index == count - 1
is_last(index, count) == index = count - 1

\* both sides of the placed tile scaled from its width
placed_size_from_width(size, ppm) == <<size[1] * ppm.d, size[1] * ppm.d>>

\* <<im_width / ppm, im_height / ppm>>, as numerators over ppm.n
placed_size(size, ppm) == <<size[1] * ppm.d, size[2] * ppm.d>>

\* one iteration of the loop of make_pdf: the page added for (coords, image) to
\* a document whose pages have size page_size.
\* Lengths of the page are numerators over ppm.n (mm * ppm.n).
make_pdf_page(coords, image, im, page_size) ==
    LET ppm == im.pixels_per_mm
        den == ppm.n
        bn == im.border[1] * den
        be == im.border[2] * den
        bs == im.border[3] * den
        bw == im.border[4] * den
        size == make_pdf_page_size(im.orientation, dimensions(im.paper))
        pw == size[1] * den
        ph == size[2] * den
        xy == parse_coords(coords)
        x == xy[1]
        y == xy[2]
        im_width_mm  == placed_size(image.size, ppm)[1]
        im_height_mm == placed_size(image.size, ppm)[2]
        last_vertical   == is_last(y, im.pages_vertical)
        last_horizontal == is_last(x, im.pages_horizontal)
        T(tx, ty, n, e, s, w, dash) == tick(tx, ty, den, pw, ph, n, e, s, w, dash)
        corner == T(bw, bn, TRUE, FALSE, FALSE, TRUE, FALSE)
               \o T(bw, bn + im_height_mm, FALSE, FALSE, TRUE, TRUE, FALSE)
               \o T(bw + im_width_mm, bn + im_height_mm, FALSE, TRUE, TRUE, FALSE, FALSE)
               \o T(bw + im_width_mm, bn, TRUE, TRUE, FALSE, FALSE, FALSE)
        east  == IF ~last_horizontal
                 THEN T(pw - be, im_height_mm + bn, FALSE, FALSE, TRUE, FALSE, TRUE)
                   \o T(pw - be, bn, TRUE, FALSE, FALSE, FALSE, TRUE)
                 ELSE <<>>
        south == IF ~last_vertical
                 THEN T(bw, ph - bs, FALSE, FALSE, FALSE, TRUE, TRUE)
                   \o T(bw + im_width_mm, ph - bs, FALSE, TRUE, FALSE, FALSE, TRUE)
                 ELSE <<>>
    IN  [x |-> x, y |-> y,
         size |-> page_size,
         den |-> den,
         lines |-> corner \o east \o south,
         image |-> [source |-> image, x |-> bw, y |-> bn,
                    w |-> im_width_mm, h |-> im_height_mm]]

----------------------------------------------------------------------------
(* exact-fit mode *)

\* the scale taken from the width alone
border_pixels_per_mm_by_width(wp, hp, sw, sh) ==
    Rat(10 * wp, MM10_PER_SQUARE * sw)

\* min(width_pixels / (squares_wide * 25.4), height_pixels / (squares_high * 25.4))
\* as written in process_image_with_border
border_pixels_per_mm(wp, hp, sw, sh) ==
    LET by_width  == Rat(10 * wp, MM10_PER_SQUARE * sw)
        by_height == Rat(10 * hp, MM10_PER_SQUARE * sh)
    IN  IF RatLt(by_height, by_width) THEN by_height ELSE by_width

\* process_image_with_border with the two margins exchanged
process_image_with_border_margins_swapped(wp, hp, sw, sh, bn, be, bw, bs) ==
    LET pixels_per_mm == border_pixels_per_mm(wp, hp, sw, sh)
        image_width_mm  == mm_of_pixels(wp, pixels_per_mm)
        image_height_mm == mm_of_pixels(hp, pixels_per_mm)
    IN  [called |-> TRUE,
         pixels_per_mm |-> pixels_per_mm,
         image |-> [size |-> <<wp, hp>>],
         image_width |-> image_width_mm,
         image_height |-> image_height_mm,
         margin_left |-> bn,
         margin_top |-> bw,
         page_width |-> Rat(image_width_mm.n + (bw + be) * image_width_mm.d, image_width_mm.d),
         page_height |-> Rat(image_height_mm.n + (bn + bs) * image_height_mm.d, image_height_mm.d)]

\* process_image_with_border; lengths that depend on the image are rationals
process_image_with_border(wp, hp, sw, sh, bn, be, bw, bs) ==
    LET pixels_per_mm == border_pixels_per_mm(wp, hp, sw, sh)
        image_width_mm  == mm_of_pixels(wp, pixels_per_mm)
        image_height_mm == mm_of_pixels(hp, pixels_per_mm)
    IN  [called |-> TRUE,
         pixels_per_mm |-> pixels_per_mm,
         image |-> [size |-> <<wp, hp>>],
         image_width |-> image_width_mm,
         image_height |-> image_height_mm,
         margin_left |-> bw,
         margin_top |-> bn,
         page_width |-> Rat(image_width_mm.n + (bw + be) * image_width_mm.d, image_width_mm.d),
         page_height |-> Rat(image_height_mm.n + (bn + bs) * image_height_mm.d, image_height_mm.d)]

----------------------------------------------------------------------------
(* extract_images_from_pdf *)

\* an omitted argument; an image without alpha band
None == -1

\* what a call gives: a value, None, or an exception
Returns(value) == [kind |-> "return", value |-> value]
ReturnsNone    == [kind |-> "none"]
Raises(error)  == [kind |-> "raise", error |-> error]

\* bytes per pixel of the raw decoder for the image formats used: 'RGB' and 'L'
bytes_per_pixel(image_format) == IF image_format = "RGB" THEN 3 ELSE 1

\* Image.frombytes(image_format, size, buf, decoder_name='raw'): ValueError
\* ("not enough image data") when buf is shorter than the image; pixels names
\* the stream the pixel values come from
frombytes(image_format, size, buf, pixels) ==
    IF buf.length < bytes_per_pixel(image_format) * size[1] * size[2]
    THEN Raises("ValueError")
    ELSE Returns([mode |-> image_format, size |-> size, pixels |-> pixels, alpha |-> None])

\* vobj.getData() of a /FlateDecode stream: the decompressed bytes; the
\* predictor's assertion fails on rows of the wrong length, and bytes that
\* are no deflate stream do not decompress
getData(vobj) ==
    IF vobj.data.kind = "raw" THEN Returns(vobj.data)
    ELSE IF vobj.data.kind = "misaligned" THEN Raises("AssertionError")
    ELSE Raises("zlib.error")

\* Image.open(io.BytesIO(vobj._data)): the image a JPEG file describes
Image_open(data, pixels) ==
    IF data.kind = "jpeg"
    THEN Returns([mode |-> data.mode, size |-> data.size, pixels |-> pixels, alpha |-> None])
    ELSE Raises("UnidentifiedImageError")

\* image_from_vobj(vobj, image_format): an image, None, or the exception that
\* leaves it.  Of the exceptions of the /FlateDecode branch only ValueError
\* and TypeError of frombytes and AssertionError are caught.
image_from_vobj(vobj, image_format, pixels) ==
    IF "Filter" \notin DOMAIN vobj THEN Raises("KeyError")
    ELSE IF vobj.Filter = "/FlateDecode"
    THEN LET buf == getData(vobj)
         IN  IF buf.kind = "raise"
             THEN (IF buf.error = "AssertionError" THEN ReturnsNone ELSE buf)
             ELSE IF ~({"Width", "Height"} \subseteq DOMAIN vobj) THEN Raises("KeyError")
             ELSE LET i == frombytes(image_format, <<vobj.Width, vobj.Height>>,
                                     buf.value, pixels)
                  IN  IF i.kind = "raise" THEN ReturnsNone ELSE i
    ELSE IF vobj.Filter = "/DCTDecode"
    THEN Image_open(vobj.data, pixels)
    ELSE ReturnsNone

\* img.putalpha(mask_img): the alpha band must be of mode '1' or 'L' and of
\* the size of the image ("illegal image mode", "images do not match")
putalpha(img, mask_img) ==
    IF img.mode \notin {"RGB", "RGBA", "L", "LA"} THEN Raises("ValueError")
    ELSE IF mask_img.mode \notin {"1", "L"} THEN Raises("ValueError")
    ELSE IF mask_img.size # img.size THEN Raises("ValueError")
    ELSE Returns([img EXCEPT !.mode = IF img.mode \in {"RGB", "RGBA"} THEN "RGBA" ELSE "LA",
                             !.alpha = mask_img.pixels])

\* image.mode[:3]
mode_prefix(mode) ==
    CASE mode = "RGBA" -> "RGB"
      [] mode = "CMYK" -> "CMY"
      [] OTHER -> mode

\* the page loop's test with strict comparisons
passes_filter_strictly_larger(image, minw, minh) ==
    /\ image.size[1] > minw
    /\ image.size[2] > minh
    /\ mode_prefix(image.mode) = "RGB"

\* the test of the page loop that lets an image through
passes_filter(image, minw, minh) ==
    /\ image.size[1] >= minw
    /\ image.size[2] >= minh
    /\ mode_prefix(image.mode) = "RGB"

\* x or default
or_else(x, default) == IF x = None \/ x = 0 THEN default ELSE x

\* max(a, b) of Python: the first argument unless b is larger
Max(a, b) == IF b > a THEN b ELSE a

\* range(max(0, page or 0), min(to_page or in_pdf.getNumPages(), in_pdf.getNumPages()))
range_start(p) == Max(0, or_else(p, 0))
range_stop(t, num_pages) == Min(or_else(t, num_pages), num_pages)

\* the page option handed on as it is
main_page_unshifted(opt_page) == opt_page

\* pfs_extract, main: page=page - 1 if page is not None else None
main_page(opt_page) == IF opt_page # None THEN opt_page - 1 ELSE None

\* pfs_extract, main: to_page=to_page if to_page else page
main_to_page(opt_topage, opt_page) ==
    IF opt_topage # None /\ opt_topage # 0 THEN opt_topage ELSE opt_page

----------------------------------------------------------------------------
(* pfs_build_maps *)

\* str.upper() on the characters used
upper(s) ==
    LET lower == <<"a", "b", "c", "d", "e", "f", "g", "h", "i", "j", "k", "l", "m",
                   "n", "o", "p", "q", "r", "s", "t", "u", "v", "w", "x", "y", "z">>
        upper_case == <<"A", "B", "C", "D", "E", "F", "G", "H", "I", "J", "K", "L", "M",
                        "N", "O", "P", "Q", "R", "S", "T", "U", "V", "W", "X", "Y", "Z">>
        up(c) == IF \E i \in 1..26 : lower[i] = c
                 THEN upper_case[CHOOSE i \in 1..26 : lower[i] = c]
                 ELSE c
    IN  [i \in 1..Len(s) |-> up(s[i])]

\* a is b for two strings: equal strings may or may not be one object, and
\* the language leaves it to the implementation; unequal ones never are
is_outcomes(a, b) == IF a = b THEN BOOLEAN ELSE {FALSE}

\* mapmaker.Paper[key]
Paper_getitem(key) ==
    CASE key = <<"A", "4">> -> Returns(Paper.A4)
      [] key = <<"A", "3">> -> Returns(Paper.A3)
      [] key = <<"A", "2">> -> Returns(Paper.A2)
      [] key = <<"A", "1">> -> Returns(Paper.A1)
      [] key = <<"A", "0">> -> Returns(Paper.A0)
      [] OTHER -> Raises("KeyError")

\* [\w-] of the pattern of parse_filename
IsNameChar(c) ==
    \/ IsDigit(c)
    \/ c \in {"_", "-"}
    \/ c \in {"a", "b", "c", "d", "e", "f", "g", "h", "i", "j", "k", "l", "m",
               "n", "o", "p", "q", "r", "s", "t", "u", "v", "w", "x", "y", "z"}
    \/ c \in {"A", "B", "C", "D", "E", "F", "G", "H", "I", "J", "K", "L", "M",
               "N", "O", "P", "Q", "R", "S", "T", "U", "V", "W", "X", "Y", "Z"}

\* \d+(?:\.\d*)?|\.\d+ matches all of q: digits with at most one point
IsNumber(q) ==
    /\ \A i \in 1..Len(q) : IsDigit(q[i]) \/ q[i] = "."
    /\ Cardinality({i \in 1..Len(q) : q[i] = "."}) <= 1
    /\ \E i \in 1..Len(q) : IsDigit(q[i])

\* float(q) for a number of the pattern: its whole part and the digits of its
\* fraction without trailing zeros, so that equal floats are equal values
float(q) ==
    LET points == {i \in 1..Len(q) : q[i] = "."}
        point  == IF points = {} THEN Len(q) + 1 ELSE CHOOSE i \in points : TRUE
        last   == IF \E i \in (point + 1)..Len(q) : q[i] # "0"
                  THEN CHOOSE i \in (point + 1)..Len(q) :
                           q[i] # "0" /\ \A j \in (i + 1)..Len(q) : q[j] = "0"
                  ELSE point
    IN  [whole |-> IF point = 1 THEN 0 ELSE int(SubSeq(q, 1, point - 1)),
         frac  |-> SubSeq(q, point + 1, last)]

\* _*(number)x(number)\.png$ matches all of rest: the position of the x
\* between the two numbers, 0 if there is no match
size_match(rest) ==
    LET n == Len(rest)
        u == Cardinality({i \in 1..n : \A j \in 1..i : rest[j] = "_"})
        xs == {k \in (u + 2)..(n - 5) :
                  /\ rest[k] = "x"
                  /\ IsNumber(SubSeq(rest, u + 1, k - 1))
                  /\ IsNumber(SubSeq(rest, k + 1, n - 4))}
    IN  IF n >= u + 7 /\ SubSeq(rest, n - 3, n) = <<".", "p", "n", "g">> /\ xs # {}
        THEN CHOOSE k \in xs : TRUE
        ELSE 0

\* parse_filename(filename) on the leaf name: the name, width and height, or
\* ValueError.  The name is the shortest beginning of the leaf name after
\* which the rest of the pattern matches.
parse_filename(leaf_name) ==
    LET ends == {i \in 1..Len(leaf_name) :
                    /\ \A j \in 1..i : IsNameChar(leaf_name[j])
                    /\ size_match(SubSeq(leaf_name, i + 1, Len(leaf_name))) # 0}
    IN  IF ends = {} THEN Raises("ValueError")
        ELSE LET i == CHOOSE e \in ends : \A f \in ends : e <= f
                 rest == SubSeq(leaf_name, i + 1, Len(leaf_name))
                 n == Len(rest)
                 u == Cardinality({k \in 1..n : \A j \in 1..k : rest[j] = "_"})
                 x == size_match(rest)
             IN  Returns([name   |-> SubSeq(leaf_name, 1, i),
                          width  |-> float(SubSeq(rest, u + 1, x - 1)),
                          height |-> float(SubSeq(rest, x + 1, n - 4))])

\* the size in the name of a file that carries none
NoSize == [whole |-> 0, frac |-> <<>>]

\* png_filename and pdf_filename of main: the parts of the name that differ
\* between the inputs of one run
png_filename(parsed) ==
    [kind |-> "png", name |-> parsed.name, width |-> parsed.width, height |-> parsed.height]
single_pdf_filename(parsed) ==
    [kind |-> "exact", name |-> parsed.name, width |-> NoSize, height |-> NoSize]
tiled_pdf_filename(parsed, paper_name) ==
    [kind |-> paper_name, name |-> parsed.name, width |-> NoSize, height |-> NoSize]

----------------------------------------------------------------------------
(* run_waifu2x *)

\* a path that is None, and a path with what Path(path).is_file() gives
NoPath == [set |-> FALSE, is_file |-> FALSE]
PathTo(is_file) == [set |-> TRUE, is_file |-> is_file]

\* str(n) of a noise level, as one token of the command line
noise_str(n) == <<"0", "1", "2", "3">>[n + 1]

\* run_waifu2x(image, waifu2x_lua_path, torch_path, waifu2x_macos_path, scale,
\* noise, force_cudnn): the image it returns or the exception that leaves it.
\* module holds WAIFU2X_LUA_PATH, TORCH_PATH and WAIFU2X_MACOS_PATH; tool is
\* what the external program does when it is run: "ok", "fails" (it cannot
\* be started or exits with a non-zero status) or "no_output" (it exits with
\* status 0 and writes no dest.png).
run_waifu2x(image, waifu2x_lua_path, torch_path, waifu2x_macos_path, scale, noise, force_cudnn, module, tool) ==
    LET lua0   == IF ~waifu2x_lua_path.set THEN module.WAIFU2X_LUA_PATH
                  ELSE waifu2x_lua_path
        torch0 == IF ~torch_path.set THEN module.TORCH_PATH ELSE torch_path
        lua    == IF lua0.set /\ ~lua0.is_file THEN NoPath ELSE lua0
        torch  == IF torch0.set /\ ~torch0.is_file THEN NoPath ELSE torch0
        mac    == IF ~waifu2x_macos_path.set THEN module.WAIFU2X_MACOS_PATH
                  ELSE waifu2x_macos_path
        linux_command ==
            <<"torch_path", "waifu2x_lua_path", "-m",
              IF scale THEN (IF noise = None THEN "scale" ELSE "noise_scale") ELSE "noise">>
            \o (IF noise # None THEN <<"-noise_level", noise_str(noise)>> ELSE <<>>)
            \o (IF force_cudnn THEN <<"-force_cudnn", "1">> ELSE <<>>)
        mac_command ==
            <<"waifu2x_macos_path", "-s", IF scale THEN "2" ELSE "1",
              "-n", noise_str(IF noise = None THEN 0 ELSE noise)>>
        run(command) ==
            CASE tool = "fails" -> Raises("CalledProcessError")
              [] tool = "no_output" -> Raises("FileNotFoundError")
              [] OTHER -> Returns([image EXCEPT !.enhanced_by =
                                       command \o <<"-i", "source", "-o", "dest">>])
    IN  IF ~mac.set
        THEN IF ~lua.set \/ ~torch.set \/ (scale = FALSE /\ noise = None)
             THEN Returns(image)
             ELSE run(linux_command)
        ELSE IF ~mac.is_file
             THEN Returns(image)
             ELSE run(mac_command)

----------------------------------------------------------------------------
(* Inputs *)

\* 254 pixels per square make 10 pixels per mm; 2000 and 2870 pixels are then
\* the printable width and height of A4 with 5 mm borders
PixelWidths  == {1778, 2000, 2001, 2286, 4064}
PixelHeights == {2032, 2870, 2871, 4064, 6000}
\* maps that fit a sheet along one axis, and one that fits along neither
Squares      == (MinSquares..MaxSquares) \cup {16}
\* <<north, east, south, west>> in mm
BorderSpecs  == {<<5, 5, 5, 5>>, <<0, 0, 0, 0>>, <<4, 6, 8, 10>>}
\* <<east, south>> in mm
OverlapSpecs == {<<0, 0>>, <<3, 3>>, <<10, 10>>, <<3, 10>>, <<10, 3>>}
Papers       == {Paper.A4, Paper.A3}

\* the worked examples of the tiling mode: a 2032 x 1016 image of 8 x 4 squares
\* with either default overlap, and a map of 40 x 20 squares, all on A4 with
\* 5 mm borders; main() passes one overlap for both edges
Scenarios ==
    {[width_pixels |-> 2032, height_pixels |-> 1016, squares_wide |-> 8, squares_high |-> 4,
      border |-> 5, overlap |-> 3, paper |-> Paper.A4],
     [width_pixels |-> 2032, height_pixels |-> 1016, squares_wide |-> 8, squares_high |-> 4,
      border |-> 5, overlap |-> 10, paper |-> Paper.A4],
     [width_pixels |-> 4064, height_pixels |-> 2032, squares_wide |-> 40, squares_high |-> 20,
      border |-> 5, overlap |-> 3, paper |-> Paper.A4]}

\* the image XObjects and form XObjects of the documents, by object number.
\* A dictionary has the keys the object has; data is the object's stream.
JpegImage(w, h, mode) ==
    [Subtype |-> "/Image", Filter |-> "/DCTDecode", Width |-> w, Height |-> h,
     data |-> [kind |-> "jpeg", mode |-> mode, size |-> <<w, h>>]]
RawImage(w, h, bpp) ==
    [Subtype |-> "/Image", Filter |-> "/FlateDecode", Width |-> w, Height |-> h,
     data |-> [kind |-> "raw", length |-> bpp * w * h]]
MaskedRawImage(w, h, mask) ==
    [Subtype |-> "/Image", Filter |-> "/FlateDecode", Width |-> w, Height |-> h,
     SMask |-> mask, data |-> [kind |-> "raw", length |-> 3 * w * h]]
GroupForm(xobjects) ==
    [Subtype |-> "/Form", Group |-> "/Transparency", Resources |-> [XObject |-> xobjects]]

objects ==
    << JpegImage(500, 500, "RGB"),                \* 1
       MaskedRawImage(300, 300, 3),               \* 2: mask of its own size
       RawImage(300, 300, 1),                     \* 3: grayscale mask
       MaskedRawImage(300, 300, 5),               \* 4: mask of another size
       RawImage(150, 150, 1),                     \* 5: grayscale mask
       [Subtype |-> "/Image", Filter |-> "/DCTDecode", Width |-> 300, Height |-> 300,
        data |-> [kind |-> "garbage"]],           \* 6: no JPEG file
       [Subtype |-> "/Image", Filter |-> "/FlateDecode",
        data |-> [kind |-> "raw", length |-> 270000]],  \* 7: no /Width, /Height
       RawImage(300, 300, 1),                     \* 8: a grayscale bitmap
       RawImage(99, 100, 3),                      \* 9: below min_width
       RawImage(100, 100, 3),                     \* 10: at the default thresholds
       GroupForm(<<12, 13, 14>>),                 \* 11: a group holding a group
       JpegImage(400, 400, "RGB"),                \* 12
       GroupForm(<<15>>),                         \* 13
       RawImage(200, 200, 3),                     \* 14
       MaskedRawImage(300, 300, 16),              \* 15
       RawImage(300, 300, 1),                     \* 16: grayscale mask
       RawImage(320, 240, 3),                     \* 17
       JpegImage(256, 256, "RGB"),                \* 18
       GroupForm(<<20, 19>>),                     \* 19: a group holding itself
       JpegImage(128, 128, "RGB"),                \* 20
       [Subtype |-> "/Form", Resources |-> [XObject |-> <<22>>]],  \* 21: no /Group
       JpegImage(222, 222, "RGB"),                \* 22
       [Subtype |-> "/Image", Filter |-> "/JPXDecode", Width |-> 300, Height |-> 300,
        data |-> [kind |-> "garbage"]],           \* 23: another encoding
       [Subtype |-> "/Image", Filter |-> "/FlateDecode", Width |-> 300, Height |-> 300,
        data |-> [kind |-> "misaligned"]],        \* 24: rows of the wrong length
       [Subtype |-> "/Image", Width |-> 300, Height |-> 300,
        data |-> [kind |-> "raw", length |-> 270000]],  \* 25: no /Filter
       JpegImage(500, 500, "L"),                  \* 26: a grayscale JPEG
       MaskedRawImage(300, 300, 6),               \* 27: mask that is no JPEG file
       JpegImage(350, 350, "RGB"),                \* 28
       GroupForm(<<30>>),                         \* 29: holds 30, which holds 29
       GroupForm(<<31, 29>>),                     \* 30
       JpegImage(640, 480, "RGB"),                \* 31
       [Subtype |-> "/Form", Group |-> "/Transparency",
        Resources |-> [Font |-> "F1"]],           \* 32: a group without /XObject
       RawImage(200, 150, 3),                     \* 33
       JpegImage(300, 300, "RGB"),                \* 34
       JpegImage(200, 200, "RGB"),                \* 35
       [Subtype |-> "/Image", Filter |-> "/DCTDecode", Width |-> 300, Height |-> 300,
        SMask |-> 3,
        data |-> [kind |-> "jpeg", mode |-> "L", size |-> <<300, 300>>]],  \* 36: masked grayscale
       JpegImage(300, 300, "CMYK") >>             \* 37: a CMYK JPEG

\* v.getObject()
getObject(id) == objects[id]

\* the pages a document is made of
PageWith(xobjects) == [Resources |-> [XObject |-> xobjects]]
PageChoices ==
    {PageWith(<<1, 2>>),                \* a JPEG, a bitmap with a matching mask
     PageWith(<<4, 33>>),               \* a bitmap with a mismatched mask, a bitmap
     PageWith(<<6, 18>>),               \* an undecodable JPEG, a JPEG
     PageWith(<<7, 28>>),               \* a bitmap without size, a JPEG
     PageWith(<<8, 9, 10>>),            \* grayscale, too narrow, at the threshold
     PageWith(<<11, 17>>),              \* nested groups, a bitmap
     PageWith(<<34, 19>>),              \* a JPEG, a group holding itself
     PageWith(<<21, 23, 24, 25, 26>>),  \* resources that give no image
     PageWith(<<27, 35>>),              \* a bitmap with an undecodable mask, a JPEG
     PageWith(<<29>>),                  \* two groups holding each other
     PageWith(<<32>>),                  \* a group without XObjects
     PageWith(<<36, 37, 2>>),           \* masked grayscale, CMYK, masked RGB
     [Resources |-> [Font |-> "F1"]]}   \* a page without XObjects

\* sequences of 1..n elements of S
RECURSIVE SeqsUpTo(_, _)
SeqsUpTo(S, n) ==
    IF n = 0 THEN {}
    ELSE LET shorter == SeqsUpTo(S, n - 1)
         IN  {<<x>> : x \in S} \cup shorter \cup {Append(q, x) : q \in shorter, x \in S}

Documents == SeqsUpTo(PageChoices, MaxPages)
\* page, to_page
StartPages == {None, 0, 1}
EndPages   == {None, 0, 1, 2}
\* min_width, min_height
MinWidths  == {100, 300}
MinHeights == {100, 240}

\* pfs_extract: -p and -t, None when not given; whether INPUT_PDF is a file;
\* what OUTPUT_DIR is
PageOptions == {None, 1, 2, 3}
Options ==
    [page : PageOptions, topage : PageOptions, input_is_file : BOOLEAN,
     output_dir : {"absent", "dir", "file"}]
\* extract_images_from_pdf called by another program
NoOptions == [page |-> None, topage |-> None, input_is_file |-> TRUE, output_dir |-> "dir"]

NotCalled == [called |-> FALSE]
NoPdf     == [written |-> FALSE, pages |-> <<>>]

\* the arguments of a tiling or exact-fit run
MapInputs ==
    \/ /\ width_pixels \in PixelWidths
       /\ height_pixels \in PixelHeights
       /\ squares_wide \in Squares
       /\ squares_high \in Squares
       /\ \E b \in BorderSpecs :
             /\ border_north = b[1]
             /\ border_east = b[2]
             /\ border_south = b[3]
             /\ border_west = b[4]
       /\ \E o \in OverlapSpecs :
             /\ overlap_east = o[1]
             /\ overlap_south = o[2]
       /\ paper \in Papers
    \/ \E s \in Scenarios :
       /\ width_pixels = s.width_pixels
       /\ height_pixels = s.height_pixels
       /\ squares_wide = s.squares_wide
       /\ squares_high = s.squares_high
       /\ border_north = s.border
       /\ border_east = s.border
       /\ border_south = s.border
       /\ border_west = s.border
       /\ overlap_east = s.overlap
       /\ overlap_south = s.overlap
       /\ paper = s.paper

\* nothing has run yet
MapIdle ==
    /\ pc = "idle"
    /\ ran = {}
    /\ split = NotCalled
    /\ images = <<>>
    /\ page_x = 0
    /\ page_y = 0
    /\ pdf = NoPdf
    /\ item = 1
    /\ image_spec = NotCalled
    /\ single_pdf = NoPdf

\* no exception has left the generator
NotRaised == [error |-> "", at |-> 0]

\* the extractor before its first step
ExtractIdle ==
    /\ xpc = "start"
    /\ page_number = 0
    /\ frames = <<>>
    /\ yielded = <<>>
    /\ raised = NotRaised

\* --mode and --paper_size as typed
TILED  == <<"T", "I", "L", "E", "D">>
SINGLE == <<"S", "I", "N", "G", "L", "E">>
PNG    == <<"P", "N", "G">>
Settings ==
    [mode : {<<"t", "i", "l", "e", "d">>, TILED, <<"s", "i", "n", "g", "l", "e">>,
             <<"p", "n", "g">>, <<"p", "o", "s", "t", "e", "r">>},
     specified_paper_size : {<<"a", "4">>, <<"A", "3">>,
                             <<"l", "e", "t", "t", "e", "r">>},
     input_dir : {"dir", "absent"}, output_dir : {"dir", "absent", "file"}]

\* the entries of an input directory: the leaf name and whether the file is
\* an image
EntryChoices ==
    LET DirEntry(leaf_name, is_image) == [leaf_name |-> leaf_name, is_image |-> is_image]
    IN
    {DirEntry(<<"m", "a", "p", "_", "3", "x", "4", ".", "p", "n", "g">>, TRUE),
     DirEntry(<<"m", "a", "p", "_", "5", "x", "6", ".", "p", "n", "g">>, TRUE),
     DirEntry(<<"m", "a", "p", "_", "_", "3", ".", "0", "x", "4", ".", "p", "n", "g">>, TRUE),
     DirEntry(<<"b", "a", "d", "2", "x", ".", "5", ".", "p", "n", "g">>, FALSE),
     DirEntry(<<"n", "o", "t", "e", "s", ".", "t", "x", "t">>, FALSE),
     DirEntry(<<"c", "o", "v", "e", "r", ".", "p", "n", "g">>, TRUE)}
\* a directory holds no name twice
EntryLists ==
    {q \in SeqsUpTo(EntryChoices, MaxEntries) \cup {<<>>} :
        \A i, j \in 1..Len(q) : i # j => q[i].leaf_name # q[j].leaf_name}

\* output files an earlier run may have left
ExistingOutputs ==
    LET map == [name |-> <<"m", "a", "p">>,
                width |-> [whole |-> 3, frac |-> <<>>],
                height |-> [whole |-> 4, frac |-> <<>>]]
    IN  {png_filename(map), single_pdf_filename(map), tiled_pdf_filename(map, "A4")}

\* paper_size = None
NoPaper == [width |-> 0, height |-> 0, name |-> "None"]
\* main is running
NotEnded == [how |-> "", code |-> 0]
\* a logging record
Record(level, text) == [level |-> level, text |-> text]

\* pfs_build_maps is not run
BuildIdle ==
    /\ settings = [mode |-> TILED, specified_paper_size |-> <<"A", "4">>,
                   input_dir |-> "dir", output_dir |-> "dir"]
    /\ entries = <<>>
    /\ files = {}
    /\ paper_size = NoPaper
    /\ bpc = "idle"
    /\ entry = 1
    /\ log = <<>>
    /\ ended = NotEnded

\* an image as it was opened, not yet enhanced
OriginalImage == [source |-> "original", enhanced_by |-> <<>>]

\* the arguments of a call of run_waifu2x, the module's paths when it is
\* called and what the tool does
WaifuCalls ==
    LET Paths == {NoPath, PathTo(FALSE), PathTo(TRUE)}
    IN  [image : {OriginalImage},
         waifu2x_lua_path : Paths, torch_path : Paths, waifu2x_macos_path : Paths,
         scale : BOOLEAN, noise : {None, 0, 2}, force_cudnn : BOOLEAN,
         module : [WAIFU2X_LUA_PATH : Paths, TORCH_PATH : Paths,
                   WAIFU2X_MACOS_PATH : {NoPath}]
                  \cup [WAIFU2X_LUA_PATH : {NoPath}, TORCH_PATH : {NoPath},
                        WAIFU2X_MACOS_PATH : Paths],
         tool : {"ok", "fails", "no_output"}]

\* run_waifu2x is not called
WaifuIdle ==
    /\ waifu_call = [image |-> OriginalImage,
                     waifu2x_lua_path |-> NoPath, torch_path |-> NoPath,
                     waifu2x_macos_path |-> NoPath,
                     scale |-> TRUE, noise |-> None, force_cudnn |-> FALSE,
                     module |-> [WAIFU2X_LUA_PATH |-> NoPath, TORCH_PATH |-> NoPath,
                                 WAIFU2X_MACOS_PATH |-> NoPath],
                     tool |-> "ok"]
    /\ waifu_result = ReturnsNone

\* a build run: the extractor is not part of it
Init ==
    /\ MapInputs
    /\ MapIdle
    /\ in_pdf = <<>>
    /\ page = None
    /\ to_page = None
    /\ min_width = 100
    /\ min_height = 100
    /\ options = NoOptions
    /\ ExtractIdle
    /\ BuildIdle
    /\ WaifuIdle

\* an extraction run on one image-bearing document
ExtractInit ==
    /\ in_pdf \in Documents
    /\ page \in StartPages
    /\ to_page \in EndPages
    /\ min_width \in MinWidths
    /\ min_height \in MinHeights
    /\ options = NoOptions
    /\ ExtractIdle
    /\ BuildIdle
    /\ WaifuIdle
    /\ \E s \in {t \in Scenarios : t.overlap = 10} :
          /\ width_pixels = s.width_pixels
          /\ height_pixels = s.height_pixels
          /\ squares_wide = s.squares_wide
          /\ squares_high = s.squares_high
          /\ border_north = s.border
          /\ border_east = s.border
          /\ border_south = s.border
          /\ border_west = s.border
          /\ overlap_east = s.overlap
          /\ overlap_south = s.overlap
          /\ paper = s.paper
    /\ MapIdle

\* a run of pfs_extract: main has parsed its command line
MainInit ==
    /\ in_pdf \in Documents
    /\ options \in Options
    /\ page = None
    /\ to_page = None
    /\ min_width = None
    /\ min_height = None
    /\ xpc = "main"
    /\ page_number = 0
    /\ frames = <<>>
    /\ yielded = <<>>
    /\ raised = NotRaised
    /\ BuildIdle
    /\ WaifuIdle
    /\ \E s \in {t \in Scenarios : t.overlap = 10} :
          /\ width_pixels = s.width_pixels
          /\ height_pixels = s.height_pixels
          /\ squares_wide = s.squares_wide
          /\ squares_high = s.squares_high
          /\ border_north = s.border
          /\ border_east = s.border
          /\ border_south = s.border
          /\ border_west = s.border
          /\ overlap_east = s.overlap
          /\ overlap_south = s.overlap
          /\ paper = s.paper
    /\ MapIdle

\* a run of pfs_build_maps: main has parsed its command line, the input
\* directory holds entries in the order scandir gives them and the output
\* directory holds files
BuildInit ==
    /\ settings \in Settings
    /\ entries \in EntryLists
    /\ files \in SUBSET ExistingOutputs
    /\ paper_size = NoPaper
    /\ bpc = "main"
    /\ entry = 1
    /\ log = <<>>
    /\ ended = NotEnded
    /\ WaifuIdle
    /\ in_pdf = <<>>
    /\ page = None
    /\ to_page = None
    /\ min_width = 100
    /\ min_height = 100
    /\ options = NoOptions
    /\ ExtractIdle
    /\ \E s \in {t \in Scenarios : t.overlap = 10} :
          /\ width_pixels = s.width_pixels
          /\ height_pixels = s.height_pixels
          /\ squares_wide = s.squares_wide
          /\ squares_high = s.squares_high
          /\ border_north = s.border
          /\ border_east = s.border
          /\ border_south = s.border
          /\ border_west = s.border
          /\ overlap_east = s.overlap
          /\ overlap_south = s.overlap
          /\ paper = s.paper
    /\ MapIdle

\* one call of run_waifu2x
WaifuInit ==
    /\ waifu_call \in WaifuCalls
    /\ waifu_result = ReturnsNone
    /\ BuildIdle
    /\ in_pdf = <<>>
    /\ page = None
    /\ to_page = None
    /\ min_width = 100
    /\ min_height = 100
    /\ options = NoOptions
    /\ ExtractIdle
    /\ \E s \in {t \in Scenarios : t.overlap = 10} :
          /\ width_pixels = s.width_pixels
          /\ height_pixels = s.height_pixels
          /\ squares_wide = s.squares_wide
          /\ squares_high = s.squares_high
          /\ border_north = s.border
          /\ border_east = s.border
          /\ border_south = s.border
          /\ border_west = s.border
          /\ overlap_east = s.overlap
          /\ overlap_south = s.overlap
          /\ paper = s.paper
    /\ MapIdle

----------------------------------------------------------------------------
(* Actions *)

\* split_image up to the dict comprehension: scale, page size, borders
SplitImage ==
    /\ pc = "idle"
    /\ "tiled" \notin ran
    /\ LET pixels_per_mm == split_pixels_per_mm(width_pixels, height_pixels,
                                                squares_wide, squares_high)
           width_mm  == mm_of_pixels(width_pixels, pixels_per_mm)
           height_mm == mm_of_pixels(height_pixels, pixels_per_mm)
           size == get_page_size(width_mm, height_mm, paper,
                                 border_north, border_east, border_south, border_west,
                                 overlap_east, overlap_south)
           res  == resolve_borders(size.orientation, pixels_per_mm,
                                   border_north, border_east, border_south, border_west,
                                   overlap_east, overlap_south)
       IN  split' = [called |-> TRUE,
                     pixels_per_mm |-> pixels_per_mm,
                     width_mm |-> width_mm,
                     height_mm |-> height_mm,
                     candidates |-> size.candidates,
                     orientation |-> size.orientation,
                     pages_horizontal |-> size.pages_horizontal,
                     pages_vertical |-> size.pages_vertical,
                     page_width |-> size.page_width,
                     page_height |-> size.page_height,
                     pixel_width_page |-> size.page_width * pixels_per_mm.n,
                     pixel_height_page |-> size.page_height * pixels_per_mm.n,
                     overlap_east_pixels |-> res.overlap_east_pixels,
                     overlap_south_pixels |-> res.overlap_south_pixels,
                     border |-> res.borders,
                     paper |-> paper]
    /\ images' = <<>>
    /\ page_x' = 0
    /\ page_y' = 0
    /\ pc' = "crop"
    /\ UNCHANGED <<xvars, bvars, args, ran, pdf, item, image_spec, single_pdf>>

\* one element of the dict comprehension of split_image, x outer and y inner;
\* the last one completes the returned dict
CropFor ==
    /\ pc = "crop"
    /\ images' = dict_set(images, format_key(page_x, page_y),
                          crop_for(page_x, page_y, split, width_pixels, height_pixels))
    /\ IF page_y + 1 < split.pages_vertical
       THEN /\ page_y' = page_y + 1
            /\ page_x' = page_x
            /\ pc' = "crop"
       ELSE /\ page_y' = 0
            /\ page_x' = page_x + 1
            /\ pc' = IF page_x + 1 < split.pages_horizontal THEN "crop" ELSE "make_pdf"
    /\ UNCHANGED <<xvars, bvars, args, ran, split, pdf, item, image_spec, single_pdf>>

\* make_pdf up to its loop: the FPDF document
MakePdf ==
    /\ pc = "make_pdf"
    /\ pdf' = [written |-> FALSE,
               orientation |-> split.orientation,
               format |-> dimensions(split.paper),
               page_size |-> fpdf_page_size(split.orientation, dimensions(split.paper)),
               pages |-> <<>>]
    /\ item' = 1
    /\ pc' = "pdf_loop"
    /\ UNCHANGED <<xvars, bvars, args, ran, split, images, page_x, page_y, image_spec, single_pdf>>

\* an image without pixels; whether image.save accepts one is up to the
\* imaging library, whose encoder rejects an empty image
IsEmptyImage(image) == image.size[1] <= 0 \/ image.size[2] <= 0

\* one iteration of the loop of make_pdf over images['images'].items()
MakePdfPage ==
    /\ pc = "pdf_loop"
    /\ item <= Len(images)
    /\ pdf' = [pdf EXCEPT !.pages =
                  Append(@, make_pdf_page(images[item].key, images[item].image, split,
                                          pdf.page_size))]
    /\ item' = item + 1
    /\ UNCHANGED <<xvars, bvars, args, pc, ran, split, images, page_x, page_y, image_spec, single_pdf>>

\* image.save raises on an empty tile: make_pdf ends without a document
MakePdfFails ==
    /\ pc = "pdf_loop"
    /\ item <= Len(images)
    /\ IsEmptyImage(images[item].image)
    /\ pdf' = NoPdf
    /\ pc' = "failed"
    /\ UNCHANGED <<xvars, bvars, args, ran, split, images, page_x, page_y, item, image_spec, single_pdf>>

\* pdf.output at the end of make_pdf
MakePdfOutput ==
    /\ pc = "pdf_loop"
    /\ item > Len(images)
    /\ pdf' = [pdf EXCEPT !.written = TRUE]
    /\ pc' = "idle"
    /\ ran' = ran \cup {"tiled"}
    /\ UNCHANGED <<xvars, bvars, args, split, images, page_x, page_y, item, image_spec, single_pdf>>

\* process_image_with_border
ProcessImageWithBorder ==
    /\ pc = "idle"
    /\ "single" \notin ran
    /\ image_spec' = process_image_with_border(width_pixels, height_pixels,
                                               squares_wide, squares_high,
                                               border_north, border_east,
                                               border_west, border_south)
    /\ pc' = "single_pdf"
    /\ UNCHANGED <<xvars, bvars, args, ran, split, images, page_x, page_y, pdf, item, single_pdf>>

\* make_single_page_pdf
MakeSinglePagePdf ==
    /\ pc = "single_pdf"
    /\ single_pdf' =
          [written |-> TRUE,
           format |-> <<image_spec.page_width, image_spec.page_height>>,
           pages |-> << [size |-> <<image_spec.page_width, image_spec.page_height>>,
                         image |-> [source |-> image_spec.image,
                                    x |-> image_spec.margin_left,
                                    y |-> image_spec.margin_top,
                                    w |-> image_spec.image_width,
                                    h |-> image_spec.image_height],
                         lines |-> <<>>] >>]
    /\ pc' = "idle"
    /\ ran' = ran \cup {"single"}
    /\ UNCHANGED <<xvars, bvars, args, split, images, page_x, page_y, pdf, item, image_spec>>

\* the image images_in_page yields for the image XObject vobj (object id),
\* with its soft mask applied if it has one that decodes; None when it yields
\* nothing for it
image_of_xobject(vobj, id) ==
    LET img == image_from_vobj(vobj, "RGB", id)
    IN  IF img.kind # "return" THEN img
        ELSE IF "SMask" \notin DOMAIN vobj THEN img
        ELSE LET mask_img == image_from_vobj(getObject(vobj.SMask), "L", vobj.SMask)
             IN  IF mask_img.kind = "raise" THEN mask_img
                 ELSE IF mask_img.kind = "none" THEN img
                 ELSE putalpha(img.value, mask_img.value)

\* neither an image nor something with an encoding: rejected by images_in_page
is_rejected(vobj) == vobj.Subtype # "/Image" \/ "Filter" \notin DOMAIN vobj

\* a rejected XObject into which images_in_page recurses
is_group(vobj) == "Resources" \in DOMAIN vobj /\ "Group" \in DOMAIN vobj

\* a new images_in_page generator over pdf_page, the page or group numbered owner
new_frame(pdf_page, owner) ==
    LET r == pdf_page.Resources
    IN  [owner |-> owner,
         items |-> IF "XObject" \in DOMAIN r THEN r.XObject ELSE <<>>,
         idx |-> 1]

\* the innermost running generator and the XObject its loop is at
innermost == frames[Len(frames)]
at_item == xpc = "walk" /\ innermost.idx <= Len(innermost.items)
item_id == innermost.items[innermost.idx]
item_vobj == getObject(item_id)

\* the loop of the innermost generator moves on to its next item
advance == [frames EXCEPT ![Len(frames)].idx = @ + 1]

\* extract_images_from_pdf up to its page loop
OpenPdf ==
    /\ xpc = "start"
    /\ page_number' = range_start(page)
    /\ xpc' = "pages"
    /\ UNCHANGED <<mapvars, bvars, xargs, frames, yielded, raised>>

\* the page loop takes the next page of the range
NextPage ==
    /\ xpc = "pages"
    /\ page_number < range_stop(to_page, Len(in_pdf))
    /\ frames' = <<new_frame(in_pdf[page_number + 1], 0)>>
    /\ xpc' = "walk"
    /\ UNCHANGED <<mapvars, bvars, xargs, page_number, yielded, raised>>

\* the page loop ends
EndOfRange ==
    /\ xpc = "pages"
    /\ page_number >= range_stop(to_page, Len(in_pdf))
    /\ xpc' = "done"
    /\ UNCHANGED <<mapvars, bvars, xargs, page_number, frames, yielded, raised>>

\* a rejected XObject that is a group: images_in_page recurses into it
EnterGroup ==
    /\ at_item
    /\ is_rejected(item_vobj)
    /\ is_group(item_vobj)
    /\ Len(frames) < RecursionLimit
    /\ frames' = Append(advance, new_frame(item_vobj, item_id))
    /\ UNCHANGED <<mapvars, bvars, xargs, xpc, page_number, yielded, raised>>

\* the recursion into a group exceeds the interpreter's limit
RecursionError ==
    /\ at_item
    /\ is_rejected(item_vobj)
    /\ is_group(item_vobj)
    /\ Len(frames) >= RecursionLimit
    /\ raised' = [error |-> "RecursionError", at |-> item_id]
    /\ xpc' = "raised"
    /\ UNCHANGED <<mapvars, bvars, xargs, page_number, frames, yielded>>

\* a rejected XObject that is no group: continue
RejectXObject ==
    /\ at_item
    /\ is_rejected(item_vobj)
    /\ ~is_group(item_vobj)
    /\ frames' = advance
    /\ UNCHANGED <<mapvars, bvars, xargs, xpc, page_number, yielded, raised>>

\* an image XObject for which image_from_vobj gives no image
SkipImage ==
    /\ at_item
    /\ ~is_rejected(item_vobj)
    /\ LET img == image_of_xobject(item_vobj, item_id)
       IN  img.kind = "none"
    /\ frames' = advance
    /\ UNCHANGED <<mapvars, bvars, xargs, xpc, page_number, yielded, raised>>

\* an image XObject whose image reaches the page loop and passes its test:
\* extract_images_from_pdf yields it
YieldImage ==
    /\ at_item
    /\ ~is_rejected(item_vobj)
    /\ LET img == image_of_xobject(item_vobj, item_id)
       IN  /\ img.kind = "return"
           /\ passes_filter(img.value, min_width, min_height)
           /\ yielded' = Append(yielded, img.value)
    /\ frames' = advance
    /\ UNCHANGED <<mapvars, bvars, xargs, xpc, page_number, raised>>

\* an image XObject whose image reaches the page loop and fails its test
DropImage ==
    /\ at_item
    /\ ~is_rejected(item_vobj)
    /\ LET img == image_of_xobject(item_vobj, item_id)
       IN  /\ img.kind = "return"
           /\ ~passes_filter(img.value, min_width, min_height)
    /\ frames' = advance
    /\ UNCHANGED <<mapvars, bvars, xargs, xpc, page_number, yielded, raised>>

\* an exception leaves image_from_vobj or putalpha: nothing catches it and it
\* ends the generator
RaiseFromImage ==
    /\ at_item
    /\ ~is_rejected(item_vobj)
    /\ LET img == image_of_xobject(item_vobj, item_id)
       IN  /\ img.kind = "raise"
           /\ raised' = [error |-> img.error, at |-> item_id]
    /\ xpc' = "raised"
    /\ UNCHANGED <<mapvars, bvars, xargs, page_number, frames, yielded>>

\* the loop of the innermost generator is exhausted: it returns to the
\* generator that runs it, or to the page loop
EndOfResources ==
    /\ xpc = "walk"
    /\ innermost.idx > Len(innermost.items)
    /\ frames' = SubSeq(frames, 1, Len(frames) - 1)
    /\ IF Len(frames) = 1
       THEN /\ page_number' = page_number + 1
            /\ xpc' = "pages"
       ELSE UNCHANGED <<page_number, xpc>>
    /\ UNCHANGED <<mapvars, bvars, xargs, yielded, raised>>

\* pfs_extract, main: the input is no file, exit(1)
InputNotFound ==
    /\ xpc = "main"
    /\ ~options.input_is_file
    /\ raised' = [error |-> "SystemExit", at |-> 1]
    /\ xpc' = "exit"
    /\ UNCHANGED <<mapvars, bvars, xargs, page_number, frames, yielded>>

\* pfs_extract, main: the output directory exists and is a file, exit(1)
OutputIsFile ==
    /\ xpc = "main"
    /\ options.input_is_file
    /\ options.output_dir = "file"
    /\ raised' = [error |-> "SystemExit", at |-> 1]
    /\ xpc' = "exit"
    /\ UNCHANGED <<mapvars, bvars, xargs, page_number, frames, yielded>>

\* pfs_extract, main: the output directory is there or is made, and
\* extract_images_from_pdf is called; the loop of main saves the images it
\* yields, yielded[i] as image-(i - 1).png
Main ==
    /\ xpc = "main"
    /\ options.input_is_file
    /\ options.output_dir # "file"
    /\ options' = [options EXCEPT !.output_dir = "dir"]
    /\ page' = main_page(options.page)
    /\ to_page' = main_to_page(options.topage, options.page)
    /\ min_width' = 100
    /\ min_height' = 100
    /\ xpc' = "start"
    /\ UNCHANGED <<mapvars, bvars, in_pdf, page_number, frames, yielded, raised>>

\* pfs_build_maps, main: one of the directories is not usable, exit(1)
found_paper == Paper_getitem(upper(settings.specified_paper_size))
DirsUsable == settings.input_dir = "dir" /\ settings.output_dir # "file"

InputDirNotFound ==
    /\ bpc = "main"
    /\ settings.input_dir # "dir"
    /\ log' = Append(log, Record("INFO", "Path does not exist, and create=False!"))
    /\ ended' = [how |-> "exit", code |-> 1]
    /\ bpc' = "exit"
    /\ UNCHANGED <<mapvars, xvars, waifu_call, waifu_result, settings, entries, files,
                   paper_size, entry>>

OutputDirIsFile ==
    /\ bpc = "main"
    /\ settings.input_dir = "dir"
    /\ settings.output_dir = "file"
    /\ log' = log \o <<Record("INFO", "Path already exists"),
                        Record("ERROR", "Path exists but is a file!")>>
    /\ ended' = [how |-> "exit", code |-> 1]
    /\ bpc' = "exit"
    /\ UNCHANGED <<mapvars, xvars, waifu_call, waifu_result, settings, entries, files,
                   paper_size, entry>>

\* what main logs up to its test of the paper size
LogOfStart ==
    <<Record("INFO", "Path already exists"),
      Record("INFO", IF settings.output_dir = "dir" THEN "Path already exists"
                     ELSE "Creating new path")>>
    \o (IF found_paper.kind = "raise" THEN <<Record("INFO", "Paper size not found.")>>
        ELSE <<>>)

\* the records that are written out: basicConfig sets the level INFO
emitted(records) ==
    LET AtLeastInfo(r) == r.level # "DEBUG"
    IN  SelectSeq(records, AtLeastInfo)

\* main: no paper size was found and mode.upper() is 'TILED' holds: exit(0)
TiledWithoutPaper ==
    /\ bpc = "main"
    /\ DirsUsable
    /\ found_paper.kind = "raise"
    /\ TRUE \in is_outcomes(upper(settings.mode), TILED)
    /\ settings' = [settings EXCEPT !.output_dir = "dir"]
    /\ paper_size' = NoPaper
    /\ log' = log \o LogOfStart
               \o <<Record("ERROR", "Tiled mode requires a valid paper size, aborting")>>
    /\ ended' = [how |-> "exit", code |-> 0]
    /\ bpc' = "exit"
    /\ UNCHANGED <<mapvars, xvars, waifu_call, waifu_result, entries, files,
                   entry>>

\* main: the test of the paper size lets the run through to its loop
StartScan ==
    /\ bpc = "main"
    /\ DirsUsable
    /\ \E same \in is_outcomes(upper(settings.mode), TILED) :
          ~(found_paper.kind = "raise" /\ same)
    /\ settings' = [settings EXCEPT !.output_dir = "dir"]
    /\ paper_size' = IF found_paper.kind = "raise" THEN NoPaper ELSE found_paper.value
    /\ log' = log \o LogOfStart
    /\ entry' = 1
    /\ bpc' = "loop"
    /\ UNCHANGED <<mapvars, xvars, waifu_call, waifu_result, entries, files,
                   ended>>

\* the names the module pathfinder.mapmaker has when main runs
mapmaker_attributes ==
    {"ImageGrid", "parse_filename", "PaperSize", "Paper", "basic_image_ops",
     "process_image_with_border", "make_single_page_pdf", "split_image", "make_pdf",
     "extract_images_from_pdf",
     "WAIFU2X_LUA_PATH", "TORCH_PATH", "WAIFU2X_MACOS_PATH"}

\* the loop of main at one entry of the input directory
AtEntry == bpc = "loop" /\ entry <= Len(entries)
parsed == parse_filename(entries[entry].leaf_name)
Processing == Record("INFO", "Processing")
KnownMode == upper(settings.mode) \in {PNG, SINGLE, TILED}
NeedsPaperName == upper(settings.mode) = TILED /\ paper_size = NoPaper
\* png_filename or pdf_filename of the entry in the mode of the run; isfile
\* of it is its membership in files
target ==
    CASE upper(settings.mode) = PNG -> png_filename(parsed.value)
      [] upper(settings.mode) = SINGLE -> single_pdf_filename(parsed.value)
      [] OTHER -> tiled_pdf_filename(parsed.value, paper_size.name)

\* the name does not parse: the ValueError leaves main
SkipUnparseable_aborting ==
    /\ AtEntry
    /\ parsed.kind = "raise"
    /\ ended' = [how |-> "ValueError", code |-> 1]
    /\ bpc' = "raised"
    /\ UNCHANGED <<mapvars, xvars, waifu_call, waifu_result, settings, entries, files,
                   paper_size, entry, log>>

\* the name does not parse: the ValueError is caught and logged at debug level
SkipUnparseable ==
    /\ AtEntry
    /\ parsed.kind = "raise"
    /\ log' = Append(log, Record("DEBUG", "Unable to parse details, skipping"))
    /\ entry' = entry + 1
    /\ UNCHANGED <<mapvars, xvars, waifu_call, waifu_result, settings, entries, files,
                   paper_size, bpc, ended>>

\* the mode is none of PNG, SINGLE and TILED: nothing is done for the entry
UnknownMode ==
    /\ AtEntry
    /\ parsed.kind = "return"
    /\ ~KnownMode
    /\ log' = Append(log, Processing)
    /\ entry' = entry + 1
    /\ UNCHANGED <<mapvars, xvars, waifu_call, waifu_result, settings, entries, files,
                   paper_size, bpc, ended>>

\* tiled mode with paper_size None: paper_size.name raises AttributeError
NoPaperName ==
    /\ AtEntry
    /\ parsed.kind = "return"
    /\ NeedsPaperName
    /\ log' = Append(log, Processing)
    /\ ended' = [how |-> "AttributeError", code |-> 1]
    /\ bpc' = "raised"
    /\ UNCHANGED <<mapvars, xvars, waifu_call, waifu_result, settings, entries, files,
                   paper_size, entry>>

\* the output of the entry exists: it is left alone
OutputExists ==
    /\ AtEntry
    /\ parsed.kind = "return"
    /\ KnownMode
    /\ ~NeedsPaperName
    /\ target \in files
    /\ log' = log \o <<Processing, Record("INFO", "File already exists, skipping.")>>
    /\ entry' = entry + 1
    /\ UNCHANGED <<mapvars, xvars, waifu_call, waifu_result, settings, entries, files,
                   paper_size, bpc, ended>>

\* Image.open on a file that is no image
ImageOpenFails ==
    /\ AtEntry
    /\ parsed.kind = "return"
    /\ KnownMode
    /\ ~NeedsPaperName
    /\ target \notin files
    /\ ~entries[entry].is_image
    /\ log' = Append(log, Processing)
    /\ ended' = [how |-> "UnidentifiedImageError", code |-> 1]
    /\ bpc' = "raised"
    /\ UNCHANGED <<mapvars, xvars, waifu_call, waifu_result, settings, entries, files,
                   paper_size, entry>>

\* run_waifu2x of main: mapmaker.run_waifu2x raises AttributeError, the
\* module has no such name
RunWaifu2xMissing ==
    /\ AtEntry
    /\ parsed.kind = "return"
    /\ KnownMode
    /\ ~NeedsPaperName
    /\ target \notin files
    /\ entries[entry].is_image
    /\ "run_waifu2x" \notin mapmaker_attributes
    /\ log' = Append(log, Processing)
    /\ ended' = [how |-> "AttributeError", code |-> 1]
    /\ bpc' = "raised"
    /\ UNCHANGED <<mapvars, xvars, waifu_call, waifu_result, settings, entries, files,
                   paper_size, entry>>

\* scandir is exhausted: main returns
EndOfScan ==
    /\ bpc = "loop"
    /\ entry > Len(entries)
    /\ ended' = [how |-> "return", code |-> 0]
    /\ bpc' = "done"
    /\ UNCHANGED <<mapvars, xvars, waifu_call, waifu_result, settings, entries, files,
                   paper_size, entry, log>>

\* one call of run_waifu2x with the arguments and the surroundings drawn
RunWaifu2x ==
    /\ waifu_result = ReturnsNone
    /\ waifu_result' = run_waifu2x(waifu_call.image, waifu_call.waifu2x_lua_path,
                                   waifu_call.torch_path, waifu_call.waifu2x_macos_path,
                                   waifu_call.scale, waifu_call.noise,
                                   waifu_call.force_cudnn, waifu_call.module,
                                   waifu_call.tool)
    /\ UNCHANGED <<mapvars, xvars, settings, entries, files, paper_size, bpc, entry,
                   log, ended, waifu_call>>

Next ==
    \/ SplitImage
    \/ CropFor
    \/ MakePdf
    \/ MakePdfPage
    \/ MakePdfFails
    \/ MakePdfOutput
    \/ ProcessImageWithBorder
    \/ MakeSinglePagePdf

Spec == Init /\ [][Next]_vars

ExtractNext ==
    \/ OpenPdf
    \/ NextPage
    \/ EndOfRange
    \/ EnterGroup
    \/ RecursionError
    \/ RejectXObject
    \/ SkipImage
    \/ YieldImage
    \/ DropImage
    \/ RaiseFromImage
    \/ EndOfResources

ExtractSpec == ExtractInit /\ [][ExtractNext]_vars

MainNext ==
    \/ InputNotFound
    \/ OutputIsFile
    \/ Main
    \/ OpenPdf
    \/ NextPage
    \/ EndOfRange
    \/ EnterGroup
    \/ RecursionError
    \/ RejectXObject
    \/ SkipImage
    \/ YieldImage
    \/ DropImage
    \/ RaiseFromImage
    \/ EndOfResources

MainSpec == MainInit /\ [][MainNext]_vars

BuildNext ==
    \/ InputDirNotFound
    \/ OutputDirIsFile
    \/ TiledWithoutPaper
    \/ StartScan
    \/ SkipUnparseable
    \/ UnknownMode
    \/ NoPaperName
    \/ OutputExists
    \/ ImageOpenFails
    \/ RunWaifu2xMissing
    \/ EndOfScan

BuildSpec == BuildInit /\ [][BuildNext]_vars

WaifuSpec == WaifuInit /\ [][RunWaifu2x]_vars

----------------------------------------------------------------------------
(* Properties *)

\* split_image has returned its plan: every tile of the plan is in images
PlanComplete == split.called /\ pc # "crop"

\* the pixel rectangles of the plan's tiles
TileRects == {images[i].image.rect : i \in 1..Len(images)}

\* pixel (i, j) lies in rectangle r = <<left, upper, right, lower>>
InRect(i, j, r) == r[1] <= i /\ i < r[3] /\ r[2] <= j /\ j < r[4]

\* The union of axis-parallel rectangles is constant on the cells cut out by
\* their edges, so it covers [0, w) x [0, h) iff it covers the first pixel of
\* every cell.
Covers(rects, w, h) ==
    LET xs == {0} \cup {r[1] : r \in rects} \cup {r[3] : r \in rects}
        ys == {0} \cup {r[2] : r \in rects} \cup {r[4] : r \in rects}
    IN  \A i \in {x \in xs : 0 <= x /\ x < w} :
        \A j \in {y \in ys : 0 <= y /\ y < h} :
            \E r \in rects : InRect(i, j, r)

Within(rects, w, h) ==
    \A r \in rects : 0 <= r[1] /\ r[3] <= w /\ 0 <= r[2] /\ r[4] <= h

\* C1: for every plan produced by split_image the union of the crop
\* rectangles of its tiles is exactly the whole source image
\* [0, width_pixels) x [0, height_pixels); no pixel lies outside every tile.
C1_TilesCoverImage ==
    PlanComplete =>
        /\ Within(TileRects, width_pixels, height_pixels)
        /\ Covers(TileRects, width_pixels, height_pixels)

\* n = ceil(size / q) for a rational size and an integer q > 0, stated without
\* division: n pages of q reach size and n - 1 pages do not
IsCeiling(n, size, q) ==
    /\ size.n <= n * q * size.d
    /\ size.n > (n - 1) * q * size.d

\* n is the page count the planner's rule gives an axis
IsPageCount(n, size, printable, overlap) ==
    IF IsCeiling(1, size, printable)
    THEN n = 1
    ELSE IsCeiling(n, size, printable + overlap)

\* C2: for each candidate orientation the page count along an axis is 1 when
\* ceil(size / printable) = 1 and ceil(size / (printable + overlap)) otherwise,
\* with size the image's extent in mm on the axis, printable the page extent
\* on the axis minus its two borders and overlap the page's east overlap for
\* the horizontal and south overlap for the vertical axis (a Landscape page's
\* east edge is the supplied south edge); the plan has the product of the two
\* counts of its orientation as its number of pages.
C2_PageCounts ==
    split.called =>
        LET c == split.candidates
            w == split.width_mm
            h == split.height_mm
        IN  /\ IsPageCount(c.pages_horizontal_p, w,
                           paper.width - (border_west + border_east), overlap_east)
            /\ IsPageCount(c.pages_vertical_p, h,
                           paper.height - (border_north + border_south), overlap_south)
            /\ IsPageCount(c.pages_horizontal_l, w,
                           paper.height - (border_north + border_south), overlap_south)
            /\ IsPageCount(c.pages_vertical_l, h,
                           paper.width - (border_east + border_west), overlap_east)
            /\ split.orientation = "P" =>
                  /\ split.pages_horizontal = c.pages_horizontal_p
                  /\ split.pages_vertical = c.pages_vertical_p
            /\ split.orientation = "L" =>
                  /\ split.pages_horizontal = c.pages_horizontal_l
                  /\ split.pages_vertical = c.pages_vertical_l
            /\ PlanComplete => Len(images) = split.pages_horizontal * split.pages_vertical

\* a completed plan in which both rules of the count were used with different
\* overlaps: an axis of one page, and an axis of three or more pages
C2_Witness ==
    /\ PlanComplete
    /\ overlap_east # overlap_south
    /\ split.candidates.pages_vertical_p = 1
    /\ split.candidates.pages_horizontal_p >= 3
    /\ split.candidates.pages_horizontal_l >= 2
    /\ Len(images) >= 3

\* total page counts of the two candidate orientations
TotalPortrait  == split.candidates.pages_horizontal_p * split.candidates.pages_vertical_p
TotalLandscape == split.candidates.pages_horizontal_l * split.candidates.pages_vertical_l

\* a physically square image with the same border on every side and the same
\* overlap on both edges
SquareAndSymmetric ==
    /\ split.width_mm.d = split.height_mm.d
    /\ split.width_mm.n = split.height_mm.n
    /\ border_north = border_east
    /\ border_east = border_south
    /\ border_south = border_west
    /\ overlap_east = overlap_south

\* C3: split_image selects Landscape only when Landscape's total page count
\* is strictly lower than Portrait's and Portrait otherwise; the selected
\* orientation has the smaller total, and equal totals (in particular a square
\* image with symmetric borders and overlaps) give Portrait.
C3_OrientationChoice ==
    split.called =>
        /\ split.orientation \in {"P", "L"}
        /\ split.orientation = "L" <=> TotalLandscape < TotalPortrait
        /\ split.pages_horizontal * split.pages_vertical <= TotalPortrait
        /\ split.pages_horizontal * split.pages_vertical <= TotalLandscape
        /\ TotalPortrait = TotalLandscape => split.orientation = "P"
        /\ SquareAndSymmetric => split.orientation = "P"

\* a square, symmetric image that needs more than one page, tiled differently
\* by the two orientations with equal totals, for which Portrait was selected
C3_Witness ==
    /\ split.called
    /\ SquareAndSymmetric
    /\ TotalPortrait = TotalLandscape
    /\ TotalPortrait >= 2
    /\ split.candidates.pages_horizontal_p # split.candidates.pages_horizontal_l
    /\ split.orientation = "P"

\* the selected orientation's overlaps and printable extents, from the arguments
FrameOverlapEast  == IF split.orientation = "P" THEN overlap_east ELSE overlap_south
FrameOverlapSouth == IF split.orientation = "P" THEN overlap_south ELSE overlap_east
FramePrintableWidth ==
    IF split.orientation = "P" THEN paper.width - (border_west + border_east)
    ELSE paper.height - (border_north + border_south)
FramePrintableHeight ==
    IF split.orientation = "P" THEN paper.height - (border_north + border_south)
    ELSE paper.width - (border_east + border_west)

\* the tile generated for grid position (x, y)
HasTile(x, y) == \E i \in 1..Len(images) : images[i].key = format_key(x, y)
TileAt(x, y) == images[CHOOSE i \in 1..Len(images) : images[i].key = format_key(x, y)].image

\* m is min(a, b), stated without computing it
IsMin(m, a, b) == m <= a /\ m <= b /\ (m = a \/ m = b)

\* C4: the crop rectangle of tile (x, y) has origin (x * page_width_px,
\* y * page_height_px) and far corner min(image edge, (x+1) * page_width_px +
\* overlap_px) on each axis; no tile reads past the source image, and a tile
\* with a neighbour to its east/south shares with it a strip of exactly
\* min(overlap_px, pixels remaining to the image edge), with no gap.
\* Pixel quantities are numerators over pixels_per_mm.d.
C4_CropRectangles ==
    split.called =>
        LET ppm == split.pixels_per_mm
            page_width_px  == split.page_width * ppm.n
            page_height_px == split.page_height * ppm.n
            overlap_x == FrameOverlapEast * ppm.n
            overlap_y == FrameOverlapSouth * ppm.n
            edge_x == width_pixels * ppm.d
            edge_y == height_pixels * ppm.d
        IN  \A x \in 0..(split.pages_horizontal - 1), y \in 0..(split.pages_vertical - 1) :
            HasTile(x, y) =>
                LET t == TileAt(x, y)
                IN  /\ t.box[1] = x * page_width_px
                    /\ t.box[2] = y * page_height_px
                    /\ IsMin(t.box[3], edge_x, (x + 1) * page_width_px + overlap_x)
                    /\ IsMin(t.box[4], edge_y, (y + 1) * page_height_px + overlap_y)
                    \* nothing is read outside the image
                    /\ 0 <= t.box[1] /\ t.box[1] <= t.box[3] /\ t.box[3] <= edge_x
                    /\ 0 <= t.box[2] /\ t.box[2] <= t.box[4] /\ t.box[4] <= edge_y
                    /\ 0 <= t.rect[1] /\ t.rect[1] <= t.rect[3] /\ t.rect[3] <= width_pixels
                    /\ 0 <= t.rect[2] /\ t.rect[2] <= t.rect[4] /\ t.rect[4] <= height_pixels
                    \* the strip shared with the east neighbour
                    /\ HasTile(x + 1, y) =>
                          LET e == TileAt(x + 1, y)
                          IN  /\ IsMin(t.box[3] - e.box[1], overlap_x, edge_x - e.box[1])
                              /\ t.box[3] - e.box[1] >= 0
                              /\ t.box[3] <= e.box[3]
                              /\ t.rect[3] >= e.rect[1]
                    \* the strip shared with the south neighbour
                    /\ HasTile(x, y + 1) =>
                          LET o == TileAt(x, y + 1)
                          IN  /\ IsMin(t.box[4] - o.box[2], overlap_y, edge_y - o.box[2])
                              /\ t.box[4] - o.box[2] >= 0
                              /\ t.box[4] <= o.box[4]
                              /\ t.rect[4] >= o.rect[2]

\* a completed plan of at least 2 x 2 tiles with two different positive
\* overlaps, whose first tile ends inside the image and whose last tile is
\* cut at the image's east and south edges
C4_Witness ==
    /\ PlanComplete
    /\ split.pages_horizontal >= 2
    /\ split.pages_vertical >= 2
    /\ overlap_east > 0
    /\ overlap_south > 0
    /\ overlap_east # overlap_south
    /\ TileAt(0, 0).box[3] < width_pixels * split.pixels_per_mm.d
    /\ LET t == TileAt(split.pages_horizontal - 1, split.pages_vertical - 1)
           ppm == split.pixels_per_mm
       IN  /\ t.box[3] = width_pixels * ppm.d
           /\ t.box[3] < split.pages_horizontal * split.page_width * ppm.n
                            + FrameOverlapEast * ppm.n
           /\ t.box[4] = height_pixels * ppm.d

\* C5: in the selected orientation the per-page stride along an axis equals
\* the printable size minus that axis's overlap when the axis needs more than
\* one page, and the full printable size when it needs exactly one page.
C5_Stride ==
    split.called =>
        /\ split.pages_horizontal > 1 =>
              split.page_width = FramePrintableWidth - FrameOverlapEast
        /\ split.pages_horizontal = 1 => split.page_width = FramePrintableWidth
        /\ split.pages_vertical > 1 =>
              split.page_height = FramePrintableHeight - FrameOverlapSouth
        /\ split.pages_vertical = 1 => split.page_height = FramePrintableHeight
        \* the stride is the distance between the origins of adjacent tiles
        /\ \A x \in 0..(split.pages_horizontal - 1), y \in 0..(split.pages_vertical - 1) :
              /\ (HasTile(x, y) /\ HasTile(x + 1, y)) =>
                    TileAt(x + 1, y).box[1] - TileAt(x, y).box[1]
                        = split.page_width * split.pixels_per_mm.n
              /\ (HasTile(x, y) /\ HasTile(x, y + 1)) =>
                    TileAt(x, y + 1).box[2] - TileAt(x, y).box[2]
                        = split.page_height * split.pixels_per_mm.n

\* a completed Landscape plan with positive overlaps that needs one page
\* along one axis and several along the other
C5_Witness ==
    /\ PlanComplete
    /\ split.orientation = "L"
    /\ overlap_east > 0
    /\ overlap_south > 0
    /\ overlap_east # overlap_south
    /\ split.pages_horizontal = 1
    /\ split.pages_vertical >= 2

\* an axis of px pixels is exactly printable mm long / one pixel longer
ExactFit(px, printable) ==
    px * split.pixels_per_mm.d = printable * split.pixels_per_mm.n
OnePixelOver(px, printable) ==
    (px - 1) * split.pixels_per_mm.d = printable * split.pixels_per_mm.n

\* the count the page-count boundary asks for on one axis of one candidate
BoundaryCount(n, px, printable) ==
    /\ ExactFit(px, printable) => n = 1
    /\ OnePixelOver(px, printable) => n = 2

\* C6: an axis whose physical size exactly equals the printable size yields
\* 1 page, and an axis one pixel larger than the printable size yields 2
\* pages, for every overlap amount.
C6_PageCountBoundary ==
    split.called =>
        LET c == split.candidates
        IN  /\ BoundaryCount(c.pages_horizontal_p, width_pixels, c.printable_width)
            /\ BoundaryCount(c.pages_vertical_p, height_pixels, c.printable_height)
            /\ BoundaryCount(c.pages_horizontal_l, width_pixels, c.printable_height)
            /\ BoundaryCount(c.pages_vertical_l, height_pixels, c.printable_width)

\* the two axis ratios, pixels per mm
ByWidth  == Rat(10 * width_pixels, MM10_PER_SQUARE * squares_wide)
ByHeight == Rat(10 * height_pixels, MM10_PER_SQUARE * squares_high)

\* r is the smaller of the two axis ratios
IsMinRatio(r) ==
    /\ RatLe(r, ByWidth)
    /\ RatLe(r, ByHeight)
    /\ RatEq(r, ByWidth) \/ RatEq(r, ByHeight)

\* C7: pixels_per_mm computed by split_image and by process_image_with_border
\* equals min(width_px / (squares_wide * 25.4), height_px / (squares_high *
\* 25.4)), and the same inputs give the same value in both functions.
C7_PixelsPerMm ==
    /\ split.called => IsMinRatio(split.pixels_per_mm)
    /\ image_spec.called => IsMinRatio(image_spec.pixels_per_mm)
    /\ (split.called /\ image_spec.called) =>
          RatEq(split.pixels_per_mm, image_spec.pixels_per_mm)

\* both functions have run on an image whose height ratio is the strictly
\* smaller one
C7_Witness ==
    /\ split.called
    /\ image_spec.called
    /\ RatLt(ByHeight, ByWidth)
    /\ RatEq(split.pixels_per_mm, ByHeight)

\* squares * 25.4 mm
GridMm(squares) == Rat(MM10_PER_SQUARE * squares, 10)

\* C8: the printed image width (width_px / pixels_per_mm) is at least
\* squares_wide * 25.4 mm and the printed height at least squares_high * 25.4
\* mm, with equality on the limiting axis.
C8_AtLeastOneInchPerSquare ==
    split.called =>
        /\ RatLe(GridMm(squares_wide), split.width_mm)
        /\ RatLe(GridMm(squares_high), split.height_mm)
        /\ RatLe(ByWidth, ByHeight) => RatEq(split.width_mm, GridMm(squares_wide))
        /\ RatLe(ByHeight, ByWidth) => RatEq(split.height_mm, GridMm(squares_high))

\* a plan whose width is the limiting axis and whose printed height is
\* strictly more than squares_high * 25.4 mm
C8_Witness ==
    /\ split.called
    /\ RatLt(ByWidth, ByHeight)
    /\ RatEq(split.width_mm, GridMm(squares_wide))
    /\ RatLt(GridMm(squares_high), split.height_mm)

\* C9 as claimed: for every input the printed width does not exceed
\* squares_wide * 25.4 mm and the printed height does not exceed
\* squares_high * 25.4 mm.
C9_NeverLargerThanGrid ==
    split.called =>
        /\ RatLe(split.width_mm, GridMm(squares_wide))
        /\ RatLe(split.height_mm, GridMm(squares_high))

\* C9 as amended: the printed extent does not exceed squares * 25.4 mm on the
\* limiting axis (nor on either axis when the two ratios are equal); on the
\* other axis it exceeds squares * 25.4 mm.
C9_NotLargerOnLimitingAxis ==
    split.called =>
        /\ RatLe(ByWidth, ByHeight) => RatLe(split.width_mm, GridMm(squares_wide))
        /\ RatLe(ByHeight, ByWidth) => RatLe(split.height_mm, GridMm(squares_high))
        /\ RatLt(ByWidth, ByHeight) => RatLt(GridMm(squares_high), split.height_mm)
        /\ RatLt(ByHeight, ByWidth) => RatLt(GridMm(squares_wide), split.width_mm)

\* a plan whose height is the limiting axis: the width is printed larger than
\* the grid's real-world size
C9_Witness ==
    /\ split.called
    /\ RatLt(ByHeight, ByWidth)
    /\ RatLt(GridMm(squares_wide), split.width_mm)
    /\ RatLe(split.height_mm, GridMm(squares_high))

\* make_pdf has started its document
PdfStarted == pc = "pdf_loop" \/ pdf.written

\* the grid positions of the plan
Grid == (0..(split.pages_horizontal - 1)) \X (0..(split.pages_vertical - 1))

GeneratedAt(k) ==
    <<(k - 1) \div split.pages_vertical, (k - 1) % split.pages_vertical>>

\* the solid and the dashed lines of a page
SolidLines(sheet)  == SelectSeq(sheet.lines, LAMBDA l : ~l.dash)
DashedLines(sheet) == SelectSeq(sheet.lines, LAMBDA l : l.dash)

\* among lines, a horizontal / vertical tick line of the point (cx, cy) that
\* starts one gap away from it towards dir (-1: west or north, 1: east or south)
HasHorizontalTick(lines, cx, cy, dir, gap) ==
    \E i \in 1..Len(lines) :
        lines[i].y1 = cy /\ lines[i].y2 = cy /\ lines[i].x1 = cx + dir * gap
HasVerticalTick(lines, cx, cy, dir, gap) ==
    \E i \in 1..Len(lines) :
        lines[i].x1 = cx /\ lines[i].x2 = cx /\ lines[i].y1 = cy + dir * gap

\* the solid lines of a page are the eight lines of four ticks, one at each
\* corner of the placed tile, each pointing away from the tile
CornerTicks(sheet) ==
    LET left   == sheet.image.x
        top    == sheet.image.y
        right  == sheet.image.x + sheet.image.w
        bottom == sheet.image.y + sheet.image.h
        gap    == TICK_GAP * sheet.den
        solid  == SolidLines(sheet)
    IN  /\ Len(solid) = 8
        /\ HasHorizontalTick(solid, left, top, -1, gap)
        /\ HasVerticalTick(solid, left, top, -1, gap)
        /\ HasHorizontalTick(solid, left, bottom, -1, gap)
        /\ HasVerticalTick(solid, left, bottom, 1, gap)
        /\ HasHorizontalTick(solid, right, bottom, 1, gap)
        /\ HasVerticalTick(solid, right, bottom, 1, gap)
        /\ HasHorizontalTick(solid, right, top, 1, gap)
        /\ HasVerticalTick(solid, right, top, -1, gap)

\* the dashed lines on the page's east edge (the vertical line at the resolved
\* east border) and on its south edge (the horizontal line at the resolved
\* south border), as indices into page.lines
EastGuides(sheet) ==
    LET edge == (sheet.size[1] - split.border[2]) * sheet.den
    IN  {i \in 1..Len(sheet.lines) :
            sheet.lines[i].dash /\ sheet.lines[i].x1 = edge /\ sheet.lines[i].x2 = edge}
SouthGuides(sheet) ==
    LET edge == (sheet.size[2] - split.border[3]) * sheet.den
    IN  {i \in 1..Len(sheet.lines) :
            sheet.lines[i].dash /\ sheet.lines[i].y1 = edge /\ sheet.lines[i].y2 = edge}

\* C11: on every page of a tiled document four solid corner ticks are drawn at
\* the four corners of the placed tile, whatever the page's grid position;
\* dashed guide ticks are drawn for the east edge if and only if the page is
\* not in the last column and for the south edge if and only if the page is
\* not in the last row, and no other dashed line is drawn.
C11_TickMarks ==
    PdfStarted =>
        \A k \in 1..Len(pdf.pages) :
            LET sheet == pdf.pages[k]
                pos  == GeneratedAt(k)
                last_column == pos[1] = split.pages_horizontal - 1
                last_row    == pos[2] = split.pages_vertical - 1
            IN  /\ CornerTicks(sheet)
                /\ EastGuides(sheet) # {} <=> ~last_column
                /\ ~last_column => Cardinality(EastGuides(sheet)) = 2
                /\ SouthGuides(sheet) # {} <=> ~last_row
                /\ ~last_row => Cardinality(SouthGuides(sheet)) = 2
                /\ \A i \in 1..Len(sheet.lines) :
                      sheet.lines[i].dash => i \in EastGuides(sheet) \cup SouthGuides(sheet)

\* a written document of at least 2 x 3 pages whose first page has both sets
\* of guide ticks, whose last page has none, and which has a page with the
\* east set only and a page with the south set only
C11_Witness ==
    /\ pdf.written
    /\ split.pages_horizontal >= 2
    /\ split.pages_vertical >= 3
    /\ Len(DashedLines(pdf.pages[1])) = 4
    /\ Len(SolidLines(pdf.pages[1])) = 8
    /\ Len(pdf.pages[Len(pdf.pages)].lines) = 8
    /\ \E j, k \in 1..Len(pdf.pages) :
          /\ EastGuides(pdf.pages[j]) # {} /\ SouthGuides(pdf.pages[j]) = {}
          /\ EastGuides(pdf.pages[k]) = {} /\ SouthGuides(pdf.pages[k]) # {}

\* C12: the pages of the tiled document appear in the tile iteration order of
\* the plan, x (column) outer and y (row) inner: (0,0), (0,1), ..., (0,V-1),
\* (1,0), ...; each tile appears on exactly one page, and the grid coordinate
\* make_pdf recovers for a page is the coordinate its tile was generated for
\* (the tile's crop origin is that coordinate times the stride).
C12_PageOrder ==
    PdfStarted =>
        /\ \A k \in 1..Len(pdf.pages) :
              LET sheet == pdf.pages[k]
              IN  /\ <<sheet.x, sheet.y>> = GeneratedAt(k)
                  /\ sheet.image.source = images[k].image
                  /\ sheet.image.source.box[1] = sheet.x * split.pixel_width_page
                  /\ sheet.image.source.box[2] = sheet.y * split.pixel_height_page
        /\ pdf.written =>
              /\ Len(pdf.pages) = Len(images)
              /\ \A pos \in Grid :
                    Cardinality({k \in 1..Len(pdf.pages) :
                                    <<pdf.pages[k].x, pdf.pages[k].y>> = pos}) = 1
              /\ \A i \in 1..Len(images) :
                    Cardinality({k \in 1..Len(pdf.pages) :
                                    pdf.pages[k].image.source = images[i].image}) = 1

\* a written document of a plan with more columns than rows and at least two
\* of each: its second page is the second row of the first column
C12_Witness ==
    /\ pdf.written
    /\ split.pages_vertical >= 2
    /\ split.pages_horizontal > split.pages_vertical
    /\ pdf.pages[2].x = 0
    /\ pdf.pages[2].y = 1
    /\ pdf.pages[split.pages_vertical + 1].x = 1
    /\ pdf.pages[split.pages_vertical + 1].y = 0

\* the smaller of the two axis ratios
MinRatio == IF RatLt(ByHeight, ByWidth) THEN ByHeight ELSE ByWidth

\* px / MinRatio + margin, in mm
MmPlus(px, margin) == Rat(px * MinRatio.d + margin * MinRatio.n, MinRatio.n)

\* a and b are the same number over the same denominator
SameRat(a, b) == a.d = b.d /\ a.n = b.n

\* C13: exact-fit mode produces exactly one page of size (image_width_mm +
\* west + east) by (image_height_mm + north + south), with image_width_mm =
\* width_px / pixels_per_mm and image_height_mm = height_px / pixels_per_mm,
\* the whole, unsplit image placed at (west, north) at that size, and no tick
\* marks.
C13_SinglePage ==
    single_pdf.written =>
        /\ Len(single_pdf.pages) = 1
        /\ LET sheet == single_pdf.pages[1]
           IN  /\ SameRat(sheet.size[1], MmPlus(width_pixels, border_west + border_east))
               /\ SameRat(sheet.size[2], MmPlus(height_pixels, border_north + border_south))
               /\ sheet.image.x = border_west
               /\ sheet.image.y = border_north
               /\ SameRat(sheet.image.w, MmPlus(width_pixels, 0))
               /\ SameRat(sheet.image.h, MmPlus(height_pixels, 0))
               /\ sheet.image.source.size = <<width_pixels, height_pixels>>
               /\ sheet.lines = <<>>

\* an exact-fit document of an image with four different borders whose
\* height is the limiting axis
C13_Witness ==
    /\ single_pdf.written
    /\ Len(single_pdf.pages) = 1
    /\ border_west # border_north
    /\ border_east # border_south
    /\ border_west # border_east
    /\ RatLt(ByHeight, ByWidth)
    /\ single_pdf.pages[1].image.x = border_west

\* a map of 40 x 20 squares on A4 with 5 mm borders and 3 mm overlaps
ScenarioB ==
    /\ squares_wide = 40 /\ squares_high = 20
    /\ paper = Paper.A4
    /\ border_north = 5 /\ border_east = 5 /\ border_south = 5 /\ border_west = 5
    /\ overlap_east = 3 /\ overlap_south = 3
    /\ RatEq(ByWidth, ByHeight)

\* the plan is in an orientation with the lower total page count
LowerTotal ==
    /\ split.pages_horizontal * split.pages_vertical <= TotalPortrait
    /\ split.pages_horizontal * split.pages_vertical <= TotalLandscape

\* C14 as claimed: for squares_wide = 40, squares_high = 20 (1016 x 508 mm)
\* on A4 with 5 mm borders and 3 mm overlaps the plan has pages_horizontal = 5
\* and pages_vertical = 2, in the orientation with the lower total page count.
C14_ScenarioB_FiveByTwo ==
    (ScenarioB /\ split.called) =>
        /\ split.pages_horizontal = 5
        /\ split.pages_vertical = 2
        /\ LowerTotal

\* C14 as amended: for the same input the plan has pages_horizontal = 6 and
\* pages_vertical = 2 in Portrait; both orientations need 12 pages.
C14_ScenarioB_SixByTwo ==
    (ScenarioB /\ split.called) =>
        /\ split.pages_horizontal = 6
        /\ split.pages_vertical = 2
        /\ split.orientation = "P"
        /\ TotalPortrait = 12
        /\ TotalLandscape = 12
        /\ LowerTotal
        /\ PlanComplete => Len(images) = 12

\* the completed plan of the 40 x 20 map
C14_Witness ==
    /\ ScenarioB
    /\ PlanComplete
    /\ split.width_mm.n = 1016 * split.width_mm.d
    /\ split.height_mm.n = 508 * split.height_mm.d
    /\ Len(images) = 12

\* a 2032 x 1016 image of 8 x 4 squares on A4 with 5 mm borders and one of the
\* two default overlaps
ScenarioA ==
    /\ width_pixels = 2032 /\ height_pixels = 1016
    /\ squares_wide = 8 /\ squares_high = 4
    /\ paper = Paper.A4
    /\ border_north = 5 /\ border_east = 5 /\ border_south = 5 /\ border_west = 5
    /\ overlap_east = overlap_south
    /\ overlap_east \in {3, 10}

\* the completed plan is one tile whose crop rectangle is the whole image
WholeImageTile ==
    /\ Len(images) = 1
    /\ images[1].image.rect = <<0, 0, width_pixels, height_pixels>>

\* C15 as claimed: for a 2032 x 1016 image with squares_wide = 8 and
\* squares_high = 4 on A4 with 5 mm borders (overlap 3 mm or 10 mm) split_image
\* yields pixels_per_mm = 10, Portrait, pages_horizontal = 1,
\* pages_vertical = 1 and a single tile whose crop rectangle is the whole image.
C15_ScenarioA_Portrait ==
    (ScenarioA /\ split.called) =>
        /\ RatEq(split.pixels_per_mm, Rat(10, 1))
        /\ split.orientation = "P"
        /\ split.pages_horizontal = 1
        /\ split.pages_vertical = 1
        /\ PlanComplete => WholeImageTile

\* C15 as amended: for the same input split_image yields pixels_per_mm = 10,
\* pages_horizontal = 1, pages_vertical = 1 and a single tile whose crop
\* rectangle is the whole image; the orientation is Landscape with 3 mm
\* overlaps and Portrait with 10 mm overlaps.
C15_ScenarioA_OnePage ==
    (ScenarioA /\ split.called) =>
        /\ RatEq(split.pixels_per_mm, Rat(10, 1))
        /\ overlap_east = 3 => split.orientation = "L"
        /\ overlap_east = 10 => split.orientation = "P"
        /\ split.pages_horizontal = 1
        /\ split.pages_vertical = 1
        /\ PlanComplete => WholeImageTile

\* the completed plan of the 2032 x 1016 image with 3 mm overlaps: Portrait
\* would take two pages, Landscape takes one
C15_Witness ==
    /\ ScenarioA
    /\ overlap_east = 3
    /\ PlanComplete
    /\ TotalPortrait = 2
    /\ TotalLandscape = 1
    /\ split.orientation = "L"
    /\ WholeImageTile

\* the plan consists of a single page
SinglePagePlan == split.pages_horizontal = 1 /\ split.pages_vertical = 1

\* C16 as claimed: when the plan consists of a single page
\* (pages_horizontal = pages_vertical = 1) no tick marks are drawn on that page.
C16_NoTicksOnSinglePage ==
    (PdfStarted /\ SinglePagePlan) =>
        \A k \in 1..Len(pdf.pages) : pdf.pages[k].lines = <<>>

\* C16 as amended: when the plan consists of a single page no dashed guide
\* ticks are drawn on that page; its only tick marks are the four solid corner
\* ticks.
C16_NoGuideTicksOnSinglePage ==
    (PdfStarted /\ SinglePagePlan) =>
        \A k \in 1..Len(pdf.pages) :
            /\ DashedLines(pdf.pages[k]) = <<>>
            /\ Len(pdf.pages[k].lines) = 8
            /\ CornerTicks(pdf.pages[k])

\* a written document of a single-page plan
C16_Witness ==
    /\ pdf.written
    /\ SinglePagePlan
    /\ Len(pdf.pages) = 1
    /\ Len(SolidLines(pdf.pages[1])) = 8
    /\ DashedLines(pdf.pages[1]) = <<>>

\* the generator has ended, by exhaustion or by an exception
Ended == xpc \in {"done", "raised"}

\* the base image and the soft mask that image_from_vobj decodes for object id
BaseImage(id) == image_from_vobj(getObject(id), "RGB", id)
HasMask(id)   == "SMask" \in DOMAIN getObject(id)
MaskImage(id) == image_from_vobj(getObject(getObject(id).SMask), "L", getObject(id).SMask)

\* an image resource that decodes and has a soft mask that decodes
MaskedImage(id) ==
    /\ ~is_rejected(getObject(id))
    /\ BaseImage(id).kind = "return"
    /\ HasMask(id)
    /\ MaskImage(id).kind = "return"

\* a masked image whose mask has not the dimensions of the base image
MismatchedMask(id) ==
    /\ MaskedImage(id)
    /\ MaskImage(id).value.size # BaseImage(id).value.size

\* C17: when a decoded base image has a companion soft mask whose dimensions
\* equal the base image's, the emitted image's alpha channel is the mask's
\* grayscale values; when the mask's dimensions differ, the mask is discarded,
\* the base image is emitted fully opaque, and extraction continues.
C17_SoftMask ==
    /\ \A i \in 1..Len(yielded) :
          MaskedImage(yielded[i].pixels) =>
              IF MismatchedMask(yielded[i].pixels)
              THEN yielded[i].alpha = None
              ELSE yielded[i].alpha = getObject(yielded[i].pixels).SMask
    /\ xpc = "raised" => ~MismatchedMask(raised.at)

\* the decoding of image resource id, or of its soft mask, ends in an exception
DecodeFails(id) ==
    /\ ~is_rejected(getObject(id))
    /\ \/ BaseImage(id).kind = "raise"
       \/ /\ BaseImage(id).kind = "return"
          /\ HasMask(id)
          /\ MaskImage(id).kind = "raise"

\* C18: a single malformed embedded image never aborts extraction: a resource
\* whose decode fails (bad or unsupported pixel layout, undecodable compressed
\* stream, missing size metadata, undecodable mask) is skipped, and the images
\* after it on the same page and on later pages are still yielded.
C18_MalformedImageSkipped ==
    xpc = "raised" => ~DecodeFails(raised.at)

\* the XObjects of a group into which images_in_page recurses
Children(id) ==
    LET vobj == getObject(id)
    IN  IF is_rejected(vobj) /\ is_group(vobj) /\ "XObject" \in DOMAIN vobj.Resources
        THEN vobj.Resources.XObject
        ELSE <<>>

\* the resources reachable from items through nested groups, in document
\* order, each group followed by its content; groups nested deeper than fuel,
\* into which the interpreter's limit keeps images_in_page from recursing,
\* are not opened
RECURSIVE Flatten(_, _)
Flatten(items, fuel) ==
    IF items = <<>> THEN <<>>
    ELSE <<Head(items)>>
         \o (IF fuel > 0 THEN Flatten(Children(Head(items)), fuel - 1) ELSE <<>>)
         \o Flatten(Tail(items), fuel)

\* the XObjects of the pages first..last (numbered from 0), in page order
RECURSIVE PageItems(_, _)
PageItems(first, last) ==
    IF first > last THEN <<>>
    ELSE LET r == in_pdf[first + 1].Resources
         IN  (IF "XObject" \in DOMAIN r THEN r.XObject ELSE <<>>)
             \o PageItems(first + 1, last)

\* every resource occurrence reachable from an in-range page
Occurrences ==
    Flatten(PageItems(range_start(page), range_stop(to_page, Len(in_pdf)) - 1),
            RecursionLimit - 1)

\* the resource graph below the in-range pages is a tree: no resource is
\* reached twice (a group that holds itself is reached again inside itself)
IsTree ==
    LET occ == Occurrences
    IN  \A i, j \in 1..Len(occ) : i # j => occ[i] # occ[j]

\* an image resource that decodes to an image the page loop lets through
Decodable(id) ==
    /\ ~is_rejected(getObject(id))
    /\ BaseImage(id).kind = "return"
    /\ passes_filter(BaseImage(id).value, min_width, min_height)

\* the decodable images in document order, and the images yielded, by object
ExpectedIds == SelectSeq(Occurrences, Decodable)
YieldedIds  == [i \in 1..Len(yielded) |-> yielded[i].pixels]

IsPrefix(a, b) == Len(a) <= Len(b) /\ a = SubSeq(b, 1, Len(a))

\* C19: images are yielded in document order: pages ascending, within a page
\* in resource-dictionary order, the images of a nested group (at any depth)
\* at the position of the group; when the resource graph is a tree, every
\* decodable image resource reachable from an in-range page is yielded exactly
\* once (decodable: it decodes to an image that passes the size and format
\* test of the page loop).
C19_DocumentOrder ==
    IsTree =>
        /\ IsPrefix(YieldedIds, ExpectedIds)
        /\ Ended => YieldedIds = ExpectedIds

\* C20: extraction terminates with bounded depth: a group is never traversed
\* inside itself, and a group that references itself directly or transitively
\* is reported as a malformed document, not walked until the interpreter
\* gives up.
C20_CycleDetected ==
    /\ \A i, j \in 1..Len(frames) : i # j => frames[i].owner # frames[j].owner
    /\ xpc = "raised" => raised.error # "RecursionError"

\* the first and the last page index of the inclusive range [page, to_page]
\* clamped to the document, an omitted bound being the document's own
FirstInRange == IF page = None THEN 0 ELSE Max(0, page)
LastInRange  == IF to_page = None THEN Len(in_pdf) - 1 ELSE Min(to_page, Len(in_pdf) - 1)

\* C21: extract_images_from_pdf scans exactly the pages whose index lies in
\* the inclusive range [page, to_page], clamped to the document and in
\* ascending order; an omitted lower bound means the first page, an omitted
\* upper bound the last page, and a supplied bound of 0 is the value 0.  The
\* page loop counts page_number up by one from its first page, so the pages
\* scanned are those it walks: each lies in the range, and the loop ends just
\* past the range's last page.
C21_InclusivePageRange ==
    /\ xpc = "walk" => FirstInRange <= page_number /\ page_number <= LastInRange
    /\ xpc = "done" => page_number = Max(FirstInRange, LastInRange + 1)

\* the channel format of an image before its alpha band was applied
BaseFormat(image) ==
    IF image.alpha = None THEN image.mode
    ELSE IF image.mode = "RGBA" THEN "RGB"
    ELSE IF image.mode = "LA" THEN "L"
    ELSE image.mode

\* the image is wide and high enough and its base format is RGB
Qualifies(image) ==
    /\ image.size[1] >= min_width
    /\ image.size[2] >= min_height
    /\ BaseFormat(image) = "RGB"

OptionsCovered ==
    \/ options.page # None /\ options.topage # None /\ options.topage >= options.page
    \/ options.page # None /\ options.topage = None
    \/ options.page = None /\ options.topage = None

\* the first and last page, counted from 1, that the command line asks for,
\* the last one clamped to the document
FirstAsked == IF options.page = None THEN 1 ELSE options.page
LastAsked ==
    IF options.topage # None THEN Min(options.topage, Len(in_pdf))
    ELSE IF options.page # None THEN Min(options.page, Len(in_pdf))
    ELSE Len(in_pdf)

\* C29: pfs_extract maps its 1-based, inclusive options onto the extractor so
\* that for P >= 1 and T >= P '-p P -t T' scans exactly pages P..T (counted
\* from 1, clamped to the document), '-p P' alone scans exactly page P, and
\* with neither option every page is scanned.  The page loop counts up by one
\* from its first page: each page it walks is one asked for, and it ends just
\* past the last page asked for.
C29_CommandLinePages ==
    OptionsCovered =>
        /\ xpc = "walk" => FirstAsked <= page_number + 1 /\ page_number + 1 <= LastAsked
        /\ xpc = "done" => page_number = Max(FirstAsked - 1, LastAsked)

\* '-p 1 -t 2' on a two-page document has scanned both pages and yielded
\* images of both
C29_Witness ==
    /\ xpc = "done"
    /\ options.page = 1
    /\ options.topage = 2
    /\ Len(in_pdf) = 2
    /\ page_number = 2
    /\ in_pdf = <<PageWith(<<1, 2>>), PageWith(<<8, 9, 10>>)>>
    /\ Len(yielded) = 3

\* the caller's east and south border on a sheet of the selected orientation:
\* a Landscape sheet's east edge is the Portrait sheet's south edge, its south
\* edge the Portrait sheet's west edge
SuppliedEast  == IF split.orientation = "P" THEN border_east ELSE border_south
SuppliedSouth == IF split.orientation = "P" THEN border_south ELSE border_west

\* C26: every tile fits inside the printable area of its page: west border +
\* placed tile width <= page width - east border and north border + placed
\* tile height <= page height - south border, with the borders as supplied by
\* the caller and mapped to the selected orientation; this holds also when an
\* axis larger than the printable size is given a single page.
C26_TileInPrintableArea ==
    PdfStarted =>
        \A k \in 1..Len(pdf.pages) :
            LET sheet == pdf.pages[k]
            IN  /\ sheet.image.x + sheet.image.w <= (sheet.size[1] - SuppliedEast) * sheet.den
                /\ sheet.image.y + sheet.image.h <= (sheet.size[2] - SuppliedSouth) * sheet.den

\* the dashed vertical and the dashed horizontal lines of a page, as indices
\* into its lines
DashedVertical(sheet) ==
    {i \in 1..Len(sheet.lines) : sheet.lines[i].dash /\ sheet.lines[i].x1 = sheet.lines[i].x2}
DashedHorizontal(sheet) ==
    {i \in 1..Len(sheet.lines) : sheet.lines[i].dash /\ sheet.lines[i].y1 = sheet.lines[i].y2}

\* C27: on every page that is not in the last column the dashed east guide is
\* drawn exactly one stride (the plan's per-page width in mm) east of the
\* placed tile's west edge, and on every page that is not in the last row the
\* dashed south guide is exactly one vertical stride below the tile's north
\* edge, in Portrait and in Landscape, whatever the overlaps and borders.
C27_GuidesOneStrideFromTile ==
    PdfStarted =>
        \A k \in 1..Len(pdf.pages) :
            LET sheet == pdf.pages[k]
                pos  == GeneratedAt(k)
            IN  /\ pos[1] # split.pages_horizontal - 1 =>
                      /\ DashedVertical(sheet) # {}
                      /\ \A i \in DashedVertical(sheet) :
                            sheet.lines[i].x1 = sheet.image.x + split.page_width * sheet.den
                /\ pos[2] # split.pages_vertical - 1 =>
                      /\ DashedHorizontal(sheet) # {}
                      /\ \A i \in DashedHorizontal(sheet) :
                            sheet.lines[i].y1 = sheet.image.y + split.page_height * sheet.den

\* both overlaps are smaller than the printable size of either axis
OverlapsBelowPrintable ==
    LET printable == {split.candidates.printable_width, split.candidates.printable_height}
    IN  \A q \in printable : overlap_east < q /\ overlap_south < q

\* C28: no plan contains an empty tile: with overlaps smaller than the
\* printable size every tile (x, y) of the plan has its crop origin strictly
\* inside the image (x * page_width_px < width_px and y * page_height_px <
\* height_px), and so every tile is a non-empty piece of the image.
C28_NoEmptyTile ==
    (split.called /\ OverlapsBelowPrintable) =>
        \A i \in 1..Len(images) :
            LET tile == images[i].image
                d == split.pixels_per_mm.d
            IN  /\ tile.box[1] < width_pixels * d
                /\ tile.box[2] < height_pixels * d
                /\ ~IsEmptyImage(tile)

\* the run was asked for tiles on a paper size that Paper does not have, and
\* both directories could be used
TiledOnUnknownPaper ==
    /\ DirsUsable
    /\ upper(settings.mode) = TILED
    /\ found_paper.kind = "raise"

\* C23: when tiled mode is requested with a paper-size token that is not in
\* the enumerated set, the build run ends in main's own abort with an
\* error-level record written out, before any input is processed (no
\* "Processing" record, the scan never started).
C23_UnknownPaperAborts ==
    (bpc \notin {"idle", "main"} /\ TiledOnUnknownPaper) =>
        /\ bpc = "exit"
        /\ ended.how = "exit"
        /\ \E i \in 1..Len(log) : log[i].level = "ERROR"
        /\ \A i \in 1..Len(log) : log[i] # Processing

\* the input at position i of the directory has a name that does not parse
Unparseable(i) == parse_filename(entries[i].leaf_name).kind = "raise"

\* C24 as stated: an input whose name cannot be parsed makes the build run
\* abort: the run never goes past such an input to a later input or to its
\* normal end.
C24_UnparseableAborts ==
    \A i \in 1..Len(entries) :
        (bpc \in {"loop", "done", "raised"} /\ Unparseable(i)) => entry <= i

\* C24 amended: the build run skips an input whose name cannot be parsed:
\* the step at such an input writes out no record (the only record is at
\* debug level), writes no file, does not end the run and moves on to the
\* next input.
C24_UnparseableSkipped ==
    [][(AtEntry /\ parsed.kind = "raise") =>
          /\ entry' = entry + 1
          /\ bpc' = "loop"
          /\ ended' = NotEnded
          /\ files' = files
          /\ Len(log') = Len(log) + 1
          /\ log'[Len(log')].level = "DEBUG"
          /\ emitted(log') = emitted(log)]_vars

\* an unparseable input was passed and the next input is about to be handled
C24_Witness ==
    /\ AtEntry
    /\ entry > 1
    /\ Unparseable(entry - 1)
    /\ ended = NotEnded

\* C25: run_waifu2x is fail-open: it never raises, and when the tool's
\* invocation fails it returns the original, unmodified image.
C25_FailOpen ==
    waifu_result # ReturnsNone =>
        /\ waifu_result.kind = "return"
        /\ waifu_call.tool # "ok" => waifu_result.value = waifu_call.image

====
